---------------------------- MODULE Spec2Model ----------------------------
(***************************************************************************)
(* Model of the CloudPriceFinder data pipeline:                            *)
(*   - utils/data_validator.py   validate_instance_data, validate_dataset  *)
(*   - orchestrator.py           CloudDataOrchestrator                     *)
(*   - fetch_hetzner.py, fetch_hetzner_v2.py, fetch_hetzner_v3.py          *)
(*                               the HTTP clients, the collectors'         *)
(*                               credentials and the pricing join          *)
(*                                                                         *)
(* Python values are tagged records [k, n, s]:                             *)
(*   k = "absent"  the key is not in the dict                              *)
(*   k = "none"    None                                                    *)
(*   k = "num"     an int/float, value n                                   *)
(*   k = "str"     a str, value s: the sequence of its tokens, a token     *)
(*                 being one whitespace character (" ") or a maximal run   *)
(*                 of non-whitespace characters                            *)
(*   k = "list"    a list of str, value s: its elements                    *)
(* Prices are integers in units of 10^-6 of the currency.                  *)
(* A record (a dict of the pipeline) has one field per key the modelled    *)
(* code reads or writes; the nested originalPrice dict is flattened into   *)
(* originalPrice_hourly, originalPrice_monthly, originalPrice_currency.    *)
(* Keys the code only copies and never reads (diskType, diskSizeGB,        *)
(* deprecated, source, description, raw) are left out.                     *)
(***************************************************************************)
EXTENDS Integers, Sequences, FiniteSets, TLC

VARIABLES
    \* ---- validate_instance_data called on one record
    instance,     \* the dict handed to validate_instance_data
    verdict,      \* what the call did: "pending", "True", "False", "raise"
    \* ---- a batch run through _normalize_hetzner_data or validate_dataset
    fn,           \* which function runs: "_normalize_hetzner_data", "validate_dataset", "none"
    batch,        \* its argument: the list of dicts
    bi,           \* the loop's position: the next element (1-based)
    out,          \* normalized / valid_instances
    ds_errors,    \* validate_dataset's errors list
    bpc,          \* "loop" or "returned"
    \* ---- CloudDataOrchestrator
    providers,    \* self.providers: the registry's keys, in insertion order
    status,       \* per provider, its future: "none","queued","running","finished","collected"
    outcome,      \* per provider, the tuple _fetch_provider_data returned
    results,      \* self.results: dict in insertion order, <<[provider, data]>>
    errors,       \* self.errors: dict in insertion order, <<[provider, message]>>
    all_data,     \* run(): the combined list
    summary,      \* run(): the summary dict (also what is dumped to SUMMARY_FILE)
    saved,        \* whether OUTPUT_FILE and SUMMARY_FILE have been written
    fatal,        \* exception caught by run(): "none", "TimeoutError", "KeyError"
    ret,          \* run()'s return value: "none", "True", "False"
    pc,           \* orchestrator position: "idle","collecting","shutdown","aggregated","done"
    \* ---- the HTTP clients: fetch_hetzner.make_api_request ("v1") and
    \*      fetch_hetzner_v2.HetznerAPIClient._make_request ("v2")
    impl,         \* which client runs: "v1", "v2" ("none" outside the client's runs)
    api_cache,    \* _api_cache: per cache key, the tuple (data, timestamp) or no entry
    now,          \* datetime.now() / time.time(), in tenths of a second
    cache_key,    \* the running request's cache_key
    server,       \* what the server answers to the running request's attempts
    started,      \* the time the running request was called
    attempt,      \* the for loop's variable
    calls,        \* number of requests.get / session.get calls of the running request
    sleeps,       \* the time.sleep calls of the running request, in order
    response,     \* the last response (or exception) requests.get produced
    result,       \* the request's return value ("pending" while it runs)
    prev,         \* the request before the running one, as its caller saw it
    nreq,         \* number of requests made so far
    hpc,          \* "idle", "loop", "returned"
    \* ---- the Hetzner collectors of fetch_hetzner.py ("v1"), fetch_hetzner_v2.py
    \*      ("v2") and fetch_hetzner_v3.py ("v3")
    coll,            \* the collector function that runs ("none" outside its runs)
    cloud_api_token, \* HETZNER_API_TOKEN: "" when unset
    robot_user,      \* HETZNER_ROBOT_USER: "" when unset
    robot_password,  \* HETZNER_ROBOT_PASSWORD: "" when unset
    network,         \* number of network requests the collector has issued
    fetched,         \* endpoints whose answer the HTTP client holds in its cache
    cin,             \* the data the collector works on: server types and pricing
    ci,              \* position in the collector's sequence of requests / its loop
    cout,            \* the list the collector builds and returns
    cpc,             \* "idle", "loop", "returned"
    \* ---- one provisional record normalized several times: utils/data_normalizer
    \*      normalize_instance_data and the orchestrator's _normalize_hetzner_data
    nfn,          \* the function called ("none" outside these runs)
    raw_data,     \* the dict handed to it (to _normalize_hetzner_data: as a one-item list)
    nprovider,    \* the argument `provider` of normalize_instance_data
    nclock,       \* datetime.now() at the latest call
    canon,        \* what the calls made so far returned, in order
    \* ---- two threads calling get_from_cache / set_cache on the shared cache
    tpc,          \* per thread, the statement it is at ("idle" outside these runs)
    tlocal,       \* per thread, get_from_cache's locals cached_data and timestamp
    tret,         \* per thread, what get_from_cache returned or raised
    \* ---- utils/currency_converter.py
    rate_cache,   \* _rate_cache: currency -> rate to USD ({} at import)
    cache_expiry, \* _cache_expiry: None, or the time the cached rates expire
    fxclock,      \* datetime.now(), in seconds
    fxargs,       \* the arguments of the latest convert_currency call
    fxlookup,     \* what that call's rate lookup did: "no call", "no lookup",
                  \* "cached", "fetched", "fetch failed"
    fxret,        \* what that call returned or raised
    nconv         \* number of convert_currency calls made so far

valVars  == <<instance, verdict>>
batchVars == <<fn, batch, bi, out, ds_errors, bpc>>
orchVars == <<providers, status, outcome, results, errors, all_data, summary,
              saved, fatal, ret, pc>>
httpVars == <<impl, api_cache, now, cache_key, server, started, attempt, calls,
              sleeps, response, result, prev, nreq, hpc>>
collVars == <<coll, cloud_api_token, robot_user, robot_password, network,
              fetched, cin, ci, cout, cpc>>
normVars == <<nfn, raw_data, nprovider, nclock, canon>>
raceVars == <<tpc, tlocal, tret>>
fxVars == <<rate_cache, cache_expiry, fxclock, fxargs, fxlookup, fxret, nconv>>
vars     == <<instance, verdict, fn, batch, bi, out, ds_errors, bpc, providers, status, outcome, results, errors,
              all_data, summary, saved, fatal, ret, pc,
              impl, api_cache, now, cache_key, server, started, attempt, calls,
              sleeps, response, result, prev, nreq, hpc,
              coll, cloud_api_token, robot_user, robot_password, network,
              fetched, cin, ci, cout, cpc,
              nfn, raw_data, nprovider, nclock, canon,
              tpc, tlocal, tret,
              rate_cache, cache_expiry, fxclock, fxargs, fxlookup, fxret, nconv>>

---------------------------------------------------------------------------
(* Bounds of the model *)

\* numbers drawn for a numeric field are -1 .. MaxNum
MaxNum == 1

\* a collector emits at most MaxRecs records
MaxRecs == 2

\* the run is checked with the first NumProviders entries of the registry
NumProviders == 3

\* a batch holds at most MaxBatch dicts
MaxBatch == 3

---------------------------------------------------------------------------
(* Python values *)

Absent  == [k |-> "absent", n |-> 0, s |-> <<>>]
None    == [k |-> "none",   n |-> 0, s |-> <<>>]
Num(x)  == [k |-> "num",    n |-> x, s |-> <<>>]
Str(t)  == [k |-> "str",    n |-> 0, s |-> t]
Lst(t)  == [k |-> "list",   n |-> 0, s |-> t]
Dct     == [k |-> "dict",   n |-> 0, s |-> <<>>]

\* a dict holding none of the keys
EmptyDict ==
    [provider |-> Absent, platform |-> Absent, type |-> Absent,
     instanceType |-> Absent, vCPU |-> Absent, memoryGiB |-> Absent,
     priceUSD_hourly |-> Absent, priceUSD_monthly |-> Absent,
     priceEUR_hourly_net |-> Absent, priceEUR_monthly_net |-> Absent,
     originalPrice_hourly |-> Absent, originalPrice_monthly |-> Absent,
     originalPrice_currency |-> Absent, regions |-> Absent,
     locations |-> Absent, lastUpdated |-> Absent, hetzner_metadata |-> Absent,
     priceUSD |-> Absent]

\* `key in d`
Has(d, key) == d[key].k # "absent"

\* d.get(key): None when the key is missing
Get(d, key) == IF Has(d, key) THEN d[key] ELSE None

\* d.get(key, default)
GetDefault(d, key, default) == IF Has(d, key) THEN d[key] ELSE default

\* isinstance(v, (int, float))
IsNumber(v) == v.k = "num"

\* bool(v)
Truthy(v) ==
    CASE v.k = "num" -> v.n # 0
      [] v.k = "str" -> v.s # <<>>
      [] v.k = "list" -> v.s # <<>>
      [] OTHER       -> FALSE

\* v in <list of str>
InList(v, list) == v.k = "str" /\ v.s \in list

IsSpace(tok) == tok = " "

RECURSIVE LStrip(_)
LStrip(t) == IF t # <<>> /\ IsSpace(Head(t)) THEN LStrip(Tail(t)) ELSE t

RECURSIVE RStrip(_)
RStrip(t) ==
    IF t # <<>> /\ IsSpace(t[Len(t)]) THEN RStrip(SubSeq(t, 1, Len(t) - 1)) ELSE t

\* str.strip()
Strip(t) == RStrip(LStrip(t))

---------------------------------------------------------------------------
(* utils/data_validator.py *)

REQUIRED_FIELDS ==
    {"provider", "type", "instanceType", "priceUSD_hourly", "lastUpdated"}

VALID_PROVIDERS ==
    {<<"aws">>, <<"azure">>, <<"gcp">>, <<"hetzner">>, <<"oci">>, <<"ovh">>}

VALID_TYPES ==
    {<<"cloud-server">>, <<"cloud-loadbalancer">>, <<"cloud-volume">>,
     <<"cloud-network">>, <<"cloud-floating-ip">>, <<"cloud-snapshot">>,
     <<"cloud-certificate">>, <<"dedicated-server">>, <<"dedicated-auction">>,
     <<"dedicated-storage">>, <<"dedicated-colocation">>}

\* the literal list of line 87
COMPUTE_TYPES ==
    {<<"cloud-server">>, <<"dedicated-server">>, <<"dedicated-auction">>}

\* lines 61-64 / 66-69: a present, non-None spec field must be a number > 0
BadNumericField(inst, f) ==
    /\ Has(inst, f)
    /\ inst[f].k # "none"
    /\ (~IsNumber(inst[f]) \/ inst[f].n <= 0)

\* HasPricing with `>= 0` in place of `> 0`
HasPricingNonNegative(inst, f) == IsNumber(Get(inst, f)) /\ inst[f].n >= 0

\* lines 72-75: isinstance(instance.get(f), (int, float)) and instance[f] > 0
HasPricing(inst, f) == IsNumber(Get(inst, f)) /\ inst[f].n > 0

\* ComputeSpecCheck without the `not instance.get(f)` test and with a default
\* of 1: `instance.get(f, 1) <= 0`
ComputeSpecCheckDefaultOne(inst, f) ==
    IF ~IsNumber(GetDefault(inst, f, Num(1))) THEN "raise"
    ELSE IF GetDefault(inst, f, Num(1)).n <= 0 THEN "reject"
    ELSE "ok"

\* lines 88 / 91: `not instance.get(f) or instance.get(f, 0) <= 0`
\* "reject", "ok", or "raise" (TypeError of `<=` on a non-number)
ComputeSpecCheck(inst, f) ==
    IF ~Truthy(Get(inst, f)) THEN "reject"
    ELSE IF ~IsNumber(GetDefault(inst, f, Num(0))) THEN "raise"
    ELSE IF GetDefault(inst, f, Num(0)).n <= 0 THEN "reject"
    ELSE "ok"

\* lines 86-95
ComputeChecks(inst) ==
    IF InList(inst.type, COMPUTE_TYPES)
    THEN IF ComputeSpecCheck(inst, "vCPU") # "ok"
         THEN (IF ComputeSpecCheck(inst, "vCPU") = "raise" THEN "raise" ELSE "False")
         ELSE IF ComputeSpecCheck(inst, "memoryGiB") # "ok"
         THEN (IF ComputeSpecCheck(inst, "memoryGiB") = "raise" THEN "raise" ELSE "False")
         ELSE "True"
    ELSE "True"

\* lines 71-79
PricingCheck(inst) ==
    HasPricing(inst, "priceUSD_hourly") \/ HasPricing(inst, "priceEUR_hourly_net")

\* lines 81-84: instance['instanceType'].strip(); AttributeError on a non-str
InstanceTypeCheck(inst) ==
    IF inst.instanceType.k # "str" THEN "raise"
    ELSE IF Strip(inst.instanceType.s) = <<>> THEN "False"
    ELSE "True"

\* the body of the try block, lines 44-95: "True", "False" or "raise"
ValidateBody(inst) ==
    IF \E f \in REQUIRED_FIELDS : ~Has(inst, f) THEN "False"
    ELSE IF ~InList(inst.provider, VALID_PROVIDERS) THEN "False"
    ELSE IF ~InList(inst.type, VALID_TYPES) THEN "False"
    ELSE IF BadNumericField(inst, "vCPU") THEN "False"
    ELSE IF BadNumericField(inst, "memoryGiB") THEN "False"
    ELSE IF ~PricingCheck(inst) THEN "False"
    ELSE IF InstanceTypeCheck(inst) # "True" THEN InstanceTypeCheck(inst)
    ELSE ComputeChecks(inst)

\* ExceptClause as a handler that re-raises
ExceptClauseReraise(r) == r

\* lines 97-99: except Exception -> return False
ExceptClause(r) == IF r = "raise" THEN "False" ELSE r

\* validate_instance_data, lines 33-99
validate_instance_data(inst) == ExceptClause(ValidateBody(inst))

\* validate_dataset, lines 114-118: one iteration of the loop, on element
\* number i (0-based) of the list
validate_dataset_step(acc, i, inst) ==
    IF validate_instance_data(inst) = "True"
    THEN [valid_instances |-> Append(acc.valid_instances, inst),
          errors |-> acc.errors, continue |-> TRUE]
    ELSE [valid_instances |-> acc.valid_instances,
          errors |-> Append(acc.errors,
                       [i |-> i,
                        instanceType |-> GetDefault(inst, "instanceType", Str(<<"unknown">>))]),
          continue |-> TRUE]

---------------------------------------------------------------------------
(* orchestrator.py: _normalize_hetzner_data *)

\* the integer nearest to x / d (d > 0), a tie going to the even one: round()
RoundDiv(x, d) ==
    LET q == x \div d
        r == x % d
    IN  IF 2 * r < d THEN q
        ELSE IF 2 * r > d THEN q + 1
        ELSE IF q % 2 = 0 THEN q ELSE q + 1

\* lines 112-113 / 132-133: `eur * 1.1 if eur else 0`; TypeError when eur is
\* truthy and not a number
ConversionRaises(eur) == Truthy(eur) /\ ~IsNumber(eur)

\* lines 112, 118 / 132, 144: round(eur_hourly * 1.1 if eur_hourly else 0, 6)
UsdHourly(eur) == IF Truthy(eur) THEN Num(RoundDiv(eur.n * 11, 10)) ELSE Num(0)

\* lines 113, 119 / 133, 145: round(eur_monthly * 1.1 if eur_monthly else 0, 2)
UsdMonthly(eur) ==
    IF Truthy(eur) THEN Num(RoundDiv(eur.n * 11, 100000) * 10000) ELSE Num(0)

\* datetime.now().isoformat()
Now == Str(<<"now">>)

\* line 106
IsNewFormat(item) == Has(item, "platform") /\ Has(item, "hetzner_metadata")

\* lines 108-126: the new format keeps the item's keys
NormalizeNewFormat(item) ==
    LET eur_hourly  == GetDefault(item, "priceEUR_hourly_net", Num(0))
        eur_monthly == GetDefault(item, "priceEUR_monthly_net", Num(0))
    IN  [item EXCEPT
            !.provider = Str(<<"hetzner">>),
            !.priceUSD_hourly = UsdHourly(eur_hourly),
            !.priceUSD_monthly = UsdMonthly(eur_monthly),
            !.originalPrice_hourly = eur_hourly,
            !.originalPrice_monthly = eur_monthly,
            !.originalPrice_currency = Str(<<"EUR">>),
            !.regions = GetDefault(item, "regions",
                                   GetDefault(item, "locations", Lst(<<>>)))]

\* lines 129-157: the legacy format is rebuilt key by key
NormalizeLegacy(item) ==
    LET eur_hourly  == GetDefault(item, "priceEUR_hourly_net", Num(0))
        eur_monthly == GetDefault(item, "priceEUR_monthly_net", Num(0))
    IN  [EmptyDict EXCEPT
            !.provider = Str(<<"hetzner">>),
            !.platform = Str(<<"cloud">>),
            !.type = GetDefault(item, "type", Str(<<"cloud-server">>)),
            !.instanceType = GetDefault(item, "instanceType", Str(<<>>)),
            !.vCPU = GetDefault(item, "vCPU", Num(0)),
            !.memoryGiB = GetDefault(item, "memoryGiB", Num(0)),
            !.priceUSD_hourly = UsdHourly(eur_hourly),
            !.priceUSD_monthly = UsdMonthly(eur_monthly),
            !.originalPrice_hourly = eur_hourly,
            !.originalPrice_monthly = eur_monthly,
            !.originalPrice_currency = Str(<<"EUR">>),
            !.regions = GetDefault(item, "locations", Lst(<<>>)),
            !.lastUpdated = Now]

\* lines 105-157: whether building normalized_item raises
NormalizeRaises(item) ==
    \/ ConversionRaises(GetDefault(item, "priceEUR_hourly_net", Num(0)))
    \/ ConversionRaises(GetDefault(item, "priceEUR_monthly_net", Num(0)))

\* lines 105-157: normalized_item
NormalizedItem(item) ==
    IF IsNewFormat(item) THEN NormalizeNewFormat(item) ELSE NormalizeLegacy(item)

\* normalize_hetzner_step leaving the loop at the first record the validator
\* rejects
normalize_hetzner_step_abort(normalized, item) ==
    IF NormalizeRaises(item)
    THEN [normalized |-> normalized, continue |-> TRUE]
    ELSE IF validate_instance_data(NormalizedItem(item)) = "True"
    THEN [normalized |-> Append(normalized, NormalizedItem(item)), continue |-> TRUE]
    ELSE [normalized |-> normalized, continue |-> FALSE]

\* normalize_hetzner_step without the except clause of lines 164-166: an
\* item that raises ends the loop
normalize_hetzner_step_reraise(normalized, item) ==
    IF NormalizeRaises(item)
    THEN [normalized |-> normalized, continue |-> FALSE]
    ELSE IF validate_instance_data(NormalizedItem(item)) = "True"
    THEN [normalized |-> Append(normalized, NormalizedItem(item)), continue |-> TRUE]
    ELSE [normalized |-> normalized, continue |-> TRUE]

\* normalize_hetzner_step without the test of line 159: every item that
\* does not raise is appended
normalize_hetzner_step_unvalidated(normalized, item) ==
    IF NormalizeRaises(item)
    THEN [normalized |-> normalized, continue |-> TRUE]
    ELSE [normalized |-> Append(normalized, NormalizedItem(item)), continue |-> TRUE]

\* lines 103-166: one iteration of the loop; `continue` says whether the loop
\* goes on to the next item
normalize_hetzner_step(normalized, item) ==
    IF NormalizeRaises(item)
    THEN [normalized |-> normalized, continue |-> TRUE]
    ELSE IF validate_instance_data(NormalizedItem(item)) = "True"
    THEN [normalized |-> Append(normalized, NormalizedItem(item)), continue |-> TRUE]
    ELSE [normalized |-> normalized, continue |-> TRUE]

---------------------------------------------------------------------------
(* Records handed to the validator *)

NumVals == {Absent, None, Str(<<"x">>)} \cup {Num(x) : x \in -1..MaxNum}

Instances ==
    {[EmptyDict EXCEPT
        !.provider = f[1], !.type = f[2], !.instanceType = f[3],
        !.priceUSD_hourly = f[4], !.priceEUR_hourly_net = f[5],
        !.vCPU = f[6], !.memoryGiB = f[7], !.lastUpdated = f[8]] :
     f \in {Str(<<"hetzner">>), Str(<<"bogus">>), Absent}
          \X {Str(<<"cloud-server">>), Str(<<"dedicated-auction">>),
              Str(<<"cloud-volume">>), Str(<<"bogus">>), Absent}
          \X {Str(<<"cx11">>), Str(<<>>), Str(<<" ", " ">>), Num(7), Absent}
          \X NumVals
          \X (NumVals \ {Str(<<"x">>)})
          \X NumVals
          \X NumVals
          \X {Str(<<"2025-01-01T00:00:00">>), Absent}}

---------------------------------------------------------------------------
(* The HTTP clients: fetch_hetzner.py make_api_request ("v1") and          *)
(* fetch_hetzner_v2.py HetznerAPIClient._make_request ("v2").              *)
(* Time is counted in tenths of a second.                                  *)

\* one second, in the model's unit of time
Second == 10

\* fetch_hetzner.py lines 59-63, in tenths of a second
API_RATE_LIMIT_DELAY == 1
API_RETRY_COUNT == 3
API_RETRY_DELAY == 10
CACHE_DURATION == 3000

\* fetch_hetzner_v2.py lines 34-37 (HetznerConfig), in tenths of a second
api_rate_limit_delay == 1
api_retry_count == 3
cache_duration == 3000

\* the server repeats a transient answer at most MaxPre times before its
\* final answer; a run makes at most MaxRequests requests
MaxPre == 2
MaxRequests == 2

\* 2 ** n
RECURSIVE Pow2(_)
Pow2(n) == IF n = 0 THEN 1 ELSE 2 * Pow2(n - 1)

\* a requests.Response, or the exception requests.get raised instead
HttpResponse(code, text) == [status |-> code, exc |-> "none", body |-> text]
Raised(e) == [status |-> 0, exc |-> e, body |-> ""]
NoResponse == [status |-> 0, exc |-> "none", body |-> ""]

\* bodies of a 200 response: a JSON document, the JSON text null, not JSON
Bodies == {"{...}", "null", "<html>"}

\* response.json(): the parsed value; raises on text that is not JSON
JsonRaises(text) == text \notin {"{...}", "null"}
Json(text) == IF text = "null" THEN "None" ELSE "dict"

Responses ==
    {HttpResponse(200, b) : b \in Bodies}
    \cup {HttpResponse(c, "") : c \in {302, 401, 403, 404, 429, 500}}
    \cup {Raised(e) : e \in {"Timeout", "ConnectionError", "RequestException"}}

\* answers a server gives for a while before it gives another one
Transient == {HttpResponse(429, ""), HttpResponse(500, ""), Raised("Timeout")}

\* a server: it answers `pre` to the first n attempts of a request and
\* `then` to every later one
Servers ==
    {[pre |-> r, n |-> 0, then |-> r] : r \in Responses}
    \cup {srv \in [pre : Transient, n : 1..MaxPre, then : Responses] :
              srv.pre # srv.then}
NoServer == [pre |-> NoResponse, n |-> 0, then |-> NoResponse]
ResponseAt(srv, a) == IF a < srv.n THEN srv.pre ELSE srv.then

\* cache keys: f"{url}_{str(params or {})}" (v1), f"http_{url}_{str(headers)}" (v2);
\* equal (url, params) give equal keys, the requests of a run use one of these
CacheKeys == {"k1", "k2"}

\* _api_cache
NoEntry == [full |-> FALSE, data |-> "None", ts |-> 0]
EmptyCache == [k \in CacheKeys |-> NoEntry]

\* fetch_hetzner.py get_from_cache, lines 81-92: the data returned and the
\* cache it leaves (an expired entry is deleted)
get_from_cache(cache, key, t) ==
    IF cache[key].full
    THEN IF t - cache[key].ts < CACHE_DURATION
         THEN [data |-> cache[key].data, cache |-> cache]
         ELSE [data |-> "None", cache |-> [cache EXCEPT ![key] = NoEntry]]
    ELSE [data |-> "None", cache |-> cache]

\* fetch_hetzner_v2.py _get_from_cache, lines 57-63 (an expired entry stays)
v2_get_from_cache(cache, key, t) ==
    IF cache[key].full /\ t - cache[key].ts < cache_duration
    THEN [data |-> cache[key].data, cache |-> cache]
    ELSE [data |-> "None", cache |-> cache]

\* set_cache (v1 lines 94-97), _set_cache (v2 lines 65-67)
set_cache(cache, key, data, t) ==
    [cache EXCEPT ![key] = [full |-> TRUE, data |-> data, ts |-> t]]

\* what one pass of the loop body does after requests.get:
\*   ctl    "return", "break" or "continue" (also: fell through to the
\*          next iteration)
\*   data   the value returned, when ctl = "return"
\*   store  whether set_cache ran
\*   wait   the time.sleep after the response, 0 for none
Outcome(c, d, st, w) == [ctl |-> c, data |-> d, store |-> st, wait |-> w]

\* make_api_request with 401 and 403 handled as the 5xx statuses are
HandleResponseRetryAuth(r, a, retry_count) ==
    IF r.exc \in {"Timeout", "ConnectionError"}
    THEN Outcome("continue", "None", FALSE,
                 IF a < retry_count THEN API_RETRY_DELAY * Pow2(a) ELSE 0)
    ELSE IF r.exc = "RequestException" THEN Outcome("break", "None", FALSE, 0)
    ELSE IF r.status = 200
    THEN IF JsonRaises(r.body) THEN Outcome("break", "None", FALSE, 0)
         ELSE Outcome("return", Json(r.body), TRUE, 0)
    ELSE IF r.status = 404 THEN Outcome("return", "None", FALSE, 0)
    ELSE IF r.status = 429
    THEN Outcome("continue", "None", FALSE, API_RETRY_DELAY * Pow2(a))
    ELSE IF (500 <= r.status /\ r.status < 600) \/ r.status \in {401, 403}
    THEN Outcome("continue", "None", FALSE,
                 IF a < retry_count THEN API_RETRY_DELAY * Pow2(a) ELSE 0)
    ELSE Outcome("return", "None", FALSE, 0)

\* fetch_hetzner.py make_api_request, lines 136-181
HandleResponse(r, a, retry_count) ==
    IF r.exc \in {"Timeout", "ConnectionError"}
    THEN Outcome("continue", "None", FALSE,
                 IF a < retry_count THEN API_RETRY_DELAY * Pow2(a) ELSE 0)
    ELSE IF r.exc = "RequestException" THEN Outcome("break", "None", FALSE, 0)
    ELSE IF r.status = 200
    THEN IF JsonRaises(r.body) THEN Outcome("break", "None", FALSE, 0)
         ELSE Outcome("return", Json(r.body), TRUE, 0)
    ELSE IF r.status \in {401, 403, 404} THEN Outcome("return", "None", FALSE, 0)
    ELSE IF r.status = 429
    THEN Outcome("continue", "None", FALSE, API_RETRY_DELAY * Pow2(a))
    ELSE IF 500 <= r.status /\ r.status < 600
    THEN Outcome("continue", "None", FALSE,
                 IF a < retry_count THEN API_RETRY_DELAY * Pow2(a) ELSE 0)
    ELSE Outcome("return", "None", FALSE, 0)

\* fetch_hetzner_v2.py _make_request, lines 90-118
v2_HandleResponse(r, a, retry_count) ==
    IF r.exc # "none"
    THEN Outcome("continue", "None", FALSE,
                 IF a < retry_count THEN Second * Pow2(a) ELSE 0)
    ELSE IF r.status = 200
    THEN IF JsonRaises(r.body) THEN Outcome("return", "None", FALSE, 0)
         ELSE Outcome("return", Json(r.body), TRUE, 0)
    ELSE IF r.status \in {401, 403} THEN Outcome("return", "None", FALSE, 0)
    ELSE IF r.status = 429
    THEN Outcome("continue", "None", FALSE, Second * Pow2(a))
    ELSE Outcome("continue", "None", FALSE, 0)

Sleep(k, d, c) == [kind |-> k, dur |-> d, at |-> c]

NoPrev ==
    [valid |-> FALSE, key |-> "none", server |-> NoServer, calls |-> 0,
     result |-> "pending", response |-> NoResponse, started |-> 0,
     finished |-> 0]

HttpIdle ==
    /\ impl = "none"
    /\ api_cache = EmptyCache
    /\ now = 0
    /\ cache_key = "none"
    /\ server = NoServer
    /\ started = 0
    /\ attempt = 0
    /\ calls = 0
    /\ sleeps = <<>>
    /\ response = NoResponse
    /\ result = "pending"
    /\ prev = NoPrev
    /\ nreq = 0
    /\ hpc = "idle"

---------------------------------------------------------------------------
(* Idle values of the collectors' state *)

NoInput == [server_types |-> <<>>, pricing |-> <<>>]

CollIdle ==
    /\ coll = "none"
    /\ cloud_api_token = ""
    /\ robot_user = ""
    /\ robot_password = ""
    /\ network = 0
    /\ fetched = {}
    /\ cin = NoInput
    /\ ci = 1
    /\ cout = <<>>
    /\ cpc = "idle"

---------------------------------------------------------------------------
(* utils/data_normalizer.py, and orchestrator.py _normalize_hetzner_data   *)
(* as a function of its argument and of the time of the call               *)

\* the same provisional record is normalized MaxCalls times
MaxCalls == 2

\* datetime.now().isoformat() at time t
Isoformat(t) == Str(<<"T", ToString(t)>>)

\* what a call did: it returned `value` (a list of dicts; the dict
\* normalize_instance_data returns stands as a one-item list) or raised
Returned(value) == [raised |-> "none", value |-> value]
Raise(e) == [raised |-> e, value |-> <<>>]

\* normalize_hetzner with a conversion rate that moves with the clock
normalize_hetzner_live_rate(data, t) ==
    LET eur_hourly  == GetDefault(data, "priceEUR_hourly_net", Num(0))
        eur_monthly == GetDefault(data, "priceEUR_monthly_net", Num(0))
    IN  [EmptyDict EXCEPT
            !.provider = Str(<<"hetzner">>),
            !.type = GetDefault(data, "type", Str(<<"cloud-server">>)),
            !.instanceType = GetDefault(data, "instanceType", Str(<<>>)),
            !.vCPU = GetDefault(data, "vCPU", Num(0)),
            !.memoryGiB = GetDefault(data, "memoryGiB", Num(0)),
            !.priceUSD_hourly =
                IF Truthy(eur_hourly)
                THEN Num(RoundDiv(eur_hourly.n * (11 + t), 10)) ELSE Num(0),
            !.priceUSD_monthly = UsdMonthly(eur_monthly),
            !.originalPrice_hourly = eur_hourly,
            !.originalPrice_monthly = eur_monthly,
            !.originalPrice_currency = Str(<<"EUR">>),
            !.regions = GetDefault(data, "locations", Lst(<<>>)),
            !.lastUpdated = Isoformat(t)]

\* data_normalizer.py _normalize_hetzner, lines 43-74, where it does not
\* raise (the multiplications of lines 50-51 raise as those of the
\* orchestrator do: NormalizeRaises)
normalize_hetzner(data, t) ==
    LET eur_hourly  == GetDefault(data, "priceEUR_hourly_net", Num(0))
        eur_monthly == GetDefault(data, "priceEUR_monthly_net", Num(0))
    IN  [EmptyDict EXCEPT
            !.provider = Str(<<"hetzner">>),
            !.type = GetDefault(data, "type", Str(<<"cloud-server">>)),
            !.instanceType = GetDefault(data, "instanceType", Str(<<>>)),
            !.vCPU = GetDefault(data, "vCPU", Num(0)),
            !.memoryGiB = GetDefault(data, "memoryGiB", Num(0)),
            !.priceUSD_hourly = UsdHourly(eur_hourly),
            !.priceUSD_monthly = UsdMonthly(eur_monthly),
            !.originalPrice_hourly = eur_hourly,
            !.originalPrice_monthly = eur_monthly,
            !.originalPrice_currency = Str(<<"EUR">>),
            !.regions = GetDefault(data, "locations", Lst(<<>>)),
            !.lastUpdated = Isoformat(t)]

\* lines 85, 100, 115, 130, 145: `data.get('priceUSD', 0) * 24 * 30` raises
\* TypeError on None (priceUSD is a number or None where it is present)
PlaceholderRaises(data) == Has(data, "priceUSD") /\ ~IsNumber(data.priceUSD)

\* data_normalizer.py _normalize_aws, _normalize_azure, _normalize_gcp,
\* _normalize_oci, _normalize_ovh, lines 76-149: the same body but for the
\* provider's name p
normalize_placeholder(data, p, t) ==
    [EmptyDict EXCEPT
        !.provider = Str(<<p>>),
        !.type = Str(<<"cloud-server">>),
        !.instanceType = GetDefault(data, "instanceType", Str(<<>>)),
        !.vCPU = GetDefault(data, "vCPU", Num(0)),
        !.memoryGiB = GetDefault(data, "memoryGiB", Num(0)),
        !.priceUSD_hourly = GetDefault(data, "priceUSD", Num(0)),
        !.priceUSD_monthly = Num(GetDefault(data, "priceUSD", Num(0)).n * 24 * 30),
        !.regions = GetDefault(data, "regions", Lst(<<>>)),
        !.lastUpdated = Isoformat(t)]

\* data_normalizer.py normalize_instance_data, lines 12-41, called at time t
normalize_instance_data(raw, p, t) ==
    IF p = "hetzner"
    THEN IF NormalizeRaises(raw) THEN Raise("TypeError")
         ELSE Returned(<<normalize_hetzner(raw, t)>>)
    ELSE IF p \in {"aws", "azure", "gcp", "oci", "ovh"}
    THEN IF PlaceholderRaises(raw) THEN Raise("TypeError")
         ELSE Returned(<<normalize_placeholder(raw, p, t)>>)
    ELSE Raise("ValueError")

\* orchestrator.py _normalize_hetzner_data, lines 102-168: the whole loop
RECURSIVE normalize_hetzner_data(_, _)
normalize_hetzner_data(data, normalized) ==
    IF data = <<>> THEN normalized
    ELSE LET r == normalize_hetzner_step(normalized, Head(data))
         IN  IF r.continue THEN normalize_hetzner_data(Tail(data), r.normalized)
             ELSE r.normalized

\* line 155: the legacy format's lastUpdated (Now) is the time of the call
StampedAt(normalized, t) ==
    [i \in DOMAIN normalized |->
        [normalized[i] EXCEPT !.lastUpdated = IF @ = Now THEN Isoformat(t) ELSE @]]

NormIdle ==
    /\ nfn = "none"
    /\ raw_data = EmptyDict
    /\ nprovider = "none"
    /\ nclock = 0
    /\ canon = <<>>

---------------------------------------------------------------------------
(* Idle values of the threads that share the HTTP cache *)

Threads == {"t1", "t2"}

NoLocal == [cached_data |-> "None", timestamp |-> 0]
NoReturn == [kind |-> "pending", data |-> "None", timestamp |-> 0, at |-> 0]

RaceIdle ==
    /\ tpc = [t \in Threads |-> "idle"]
    /\ tlocal = [t \in Threads |-> NoLocal]
    /\ tret = [t \in Threads |-> NoReturn]

---------------------------------------------------------------------------
(* utils/currency_converter.py. Amounts and rates are integers in units    *)
(* of 1/RateUnit; a rates table is a function from the currencies it       *)
(* holds to their rates.                                                   *)

\* 1.0, in the unit of amounts and rates
RateUnit == 10000

\* line 18, in seconds
RATE_CACHE_DURATION == 3600

\* a run makes at most MaxConversions calls of convert_currency
MaxConversions == 2

\* {}
EmptyRates == [c \in {} |-> 0]

\* lines 21-29
FALLBACK_RATES ==
    [c \in {"EUR", "GBP", "JPY", "CAD", "AUD", "CHF", "USD"} |->
        CASE c = "EUR" -> 11000
          [] c = "GBP" -> 12500
          [] c = "JPY" -> 67
          [] c = "CAD" -> 7400
          [] c = "AUD" -> 6500
          [] c = "CHF" -> 10500
          [] c = "USD" -> 10000]

\* what requests.get of line 45 produces: a response whose JSON holds the
\* given 'rates' (from USD), a response that is not JSON, a status other
\* than 200, or an exception
FxFetched(table) == [kind |-> "rates", rates |-> table]
FxFailed(kind) == [kind |-> kind, rates |-> EmptyRates]
FxResponses ==
    {FxFetched(EmptyRates)}
    \cup {FxFetched([c \in {"EUR"} |-> r]) : r \in {0, 8000}}
    \cup {FxFetched([c \in {"EUR", "XXX"} |-> r]) : r \in {5000}}
    \cup {FxFailed(k) : k \in {"not JSON", "status 500", "exception"}}

\* lines 53-58: the rates to USD, the inverse of every positive rate from
\* USD, and USD itself
InvertedRates(table) ==
    [c \in {d \in DOMAIN table : table[d] > 0} \cup {"USD"} |->
        IF c = "USD" THEN RateUnit ELSE (RateUnit * RateUnit) \div table[c]]

\* get_exchange_rates, lines 31-75, called at time t with requests.get
\* answering resp: the rates returned, the module's state afterwards, and
\* what the lookup did
get_exchange_rates(cache, expiry, t, resp) ==
    IF expiry.k # "none" /\ t < expiry.n /\ cache # EmptyRates
    THEN [rates |-> cache, cache |-> cache, expiry |-> expiry, did |-> "cached"]
    ELSE IF resp.kind = "rates"
    THEN [rates |-> InvertedRates(resp.rates), cache |-> InvertedRates(resp.rates),
          expiry |-> Num(t + RATE_CACHE_DURATION), did |-> "fetched"]
    ELSE [rates |-> FALLBACK_RATES, cache |-> FALLBACK_RATES,
          expiry |-> Num(t + RATE_CACHE_DURATION), did |-> "fetch failed"]

\* lines 95-99: the rate of the currency
RateOf(rates, from_currency) ==
    IF from_currency \notin DOMAIN rates
    THEN IF from_currency \in DOMAIN FALLBACK_RATES
         THEN FALLBACK_RATES[from_currency] ELSE RateUnit
    ELSE rates[from_currency]

\* what a call of convert_currency did: it returned a value or raised
FxReturn(v) == [raised |-> "none", value |-> v]
FxRaise(e) == [raised |-> e, value |-> None]

\* convert_currency_body without the except clause of lines 106-109
convert_currency_body_reraise(amount, from_currency, rates) ==
    IF ~IsNumber(amount) THEN FxRaise("TypeError")
    ELSE FxReturn(Num((amount.n * RateOf(rates, from_currency)) \div RateUnit))

\* convert_currency, lines 92-109, on the rates get_exchange_rates
\* returned: `amount * rate` raises TypeError on an amount that is not a
\* number, and the except clause returns the amount
convert_currency_body(amount, from_currency, rates) ==
    IF ~IsNumber(amount) THEN FxReturn(amount)
    ELSE FxReturn(Num((amount.n * RateOf(rates, from_currency)) \div RateUnit))

NoArgs == [amount |-> None, from_currency |-> "", to_currency |-> ""]

FxIdle ==
    /\ rate_cache = EmptyRates
    /\ cache_expiry = None
    /\ fxclock = 0
    /\ fxargs = NoArgs
    /\ fxlookup = "no call"
    /\ fxret = FxRaise("pending")
    /\ nconv = 0

---------------------------------------------------------------------------
(* Idle values of the orchestrator's state *)

NoSummary ==
    [present |-> FALSE, keys |-> {}, totalInstances |-> 0, providersCount |-> 0,
     priceRange |-> [min |-> 0, max |-> 0], byProvider |-> <<>>, byType |-> <<>>,
     errors |-> <<>>]

OrchIdle ==
    /\ providers = <<>>
    /\ status = <<>>
    /\ outcome = <<>>
    /\ results = <<>>
    /\ errors = <<>>
    /\ all_data = <<>>
    /\ summary = NoSummary
    /\ saved = FALSE
    /\ fatal = "none"
    /\ ret = "none"
    /\ pc = "idle"

---------------------------------------------------------------------------
(* validate_instance_data as a state machine: one call on one record *)

BatchIdle ==
    /\ fn = "none"
    /\ batch = <<>>
    /\ bi = 1
    /\ out = <<>>
    /\ ds_errors = <<>>
    /\ bpc = "returned"

ValInit ==
    /\ instance \in Instances
    /\ verdict = "pending"
    /\ BatchIdle
    /\ OrchIdle
    /\ HttpIdle
    /\ CollIdle
    /\ NormIdle
    /\ RaceIdle
    /\ FxIdle

ValidateCall ==
    /\ verdict = "pending"
    /\ verdict' = validate_instance_data(instance)
    /\ UNCHANGED <<instance>>
    /\ UNCHANGED batchVars
    /\ UNCHANGED orchVars
    /\ UNCHANGED httpVars
    /\ UNCHANGED collVars
    /\ UNCHANGED normVars
    /\ UNCHANGED raceVars
    /\ UNCHANGED fxVars

ValNext == ValidateCall

ValSpec == ValInit /\ [][ValNext]_vars

---------------------------------------------------------------------------
(* orchestrator.py: CloudDataOrchestrator *)

\* line 47
MAX_WORKERS == 4

\* __init__, lines 54-61: the keys of self.providers in insertion order
REGISTRY == <<"hetzner", "aws", "azure", "gcp", "oci", "ovh">>

Range(seq) == {seq[i] : i \in 1..Len(seq)}

\* position of provider p in the registry (submission order)
IndexOf(seq, p) == CHOOSE i \in 1..Len(seq) : seq[i] = p

\* keys of an insertion-ordered dict <<[provider, ...]>>
Keys(d) == {d[i].provider : i \in 1..Len(d)}

\* d[p] of self.results
DataOf(d, p) == d[CHOOSE i \in 1..Len(d) : d[i].provider = p].data

\* d[p] of self.errors
MessageOf(d, p) == d[CHOOSE i \in 1..Len(d) : d[i].provider = p].message

\* self.results[p] = data (a new key is appended, an old one keeps its place)
SetResult(d, p, data) ==
    IF p \in Keys(d)
    THEN [i \in 1..Len(d) |->
            IF d[i].provider = p THEN [provider |-> p, data |-> data] ELSE d[i]]
    ELSE Append(d, [provider |-> p, data |-> data])

\* self.errors[p] = message
SetError(d, p, message) ==
    IF p \in Keys(d)
    THEN [i \in 1..Len(d) |->
            IF d[i].provider = p THEN [provider |-> p, message |-> message] ELSE d[i]]
    ELSE Append(d, [provider |-> p, message |-> message])

\* The i-th record a provider's collector emits (what self.providers[p]()
\* returns is an input of the run; line 176)
EmittedRecord(p, i) ==
    [EmptyDict EXCEPT
        !.provider        = Str(<<p>>),
        !.type            = Str(IF i % 2 = 1 THEN <<"cloud-server">> ELSE <<"cloud-volume">>),
        !.instanceType    = Str(<<p \o "-" \o ToString(i)>>),
        !.priceUSD_hourly = Num(i),
        !.vCPU            = IF i % 2 = 1 THEN Num(i) ELSE Absent,
        !.memoryGiB       = IF i % 2 = 1 THEN Num(2 * i) ELSE Absent,
        !.lastUpdated     = Str(<<"2025-01-01T00:00:00">>)]

Emission(p, n) == [i \in 1..n |-> EmittedRecord(p, i)]

\* str(e) of the exceptions a collector may raise: Exception() and Exception("boom")
Messages == {<<>>, <<"boom">>}

\* What one call of self.providers[p]() can do: return a list or raise
CollectorBehaviours(p) ==
    {[raises |-> FALSE, data |-> Emission(p, n), msg |-> <<>>] : n \in 0..MaxRecs}
    \cup {[raises |-> TRUE, data |-> <<>>, msg |-> m] : m \in Messages}

NoOutcome == [data |-> <<>>, error |-> None]

\* _fetch_provider_data, lines 170-186: (provider, data, None) or (provider, [], str(e))
fetch_provider_data(p, b) ==
    IF b.raises
    THEN [data |-> <<>>, error |-> Str(b.msg)]
    ELSE [data |-> b.data, error |-> None]

\* run(), lines 269-271: all_data.extend(data) over self.results.items()
RECURSIVE Combine(_)
Combine(d) == IF d = <<>> THEN <<>> ELSE Head(d).data \o Combine(Tail(d))

\* lines 227-232 / 235-240: count the records per value of a field, keys in
\* first-occurrence order
RECURSIVE CountBy(_, _, _)
CountBy(data, field, acc) ==
    IF data = <<>> THEN acc
    ELSE LET key == Head(data)[field].s
             hit == {i \in 1..Len(acc) : acc[i].key = key}
         IN  CountBy(Tail(data), field,
                IF hit = {}
                THEN Append(acc, [key |-> key, count |-> 1])
                ELSE [i \in 1..Len(acc) |->
                        IF i \in hit THEN [key |-> key, count |-> acc[i].count + 1]
                        ELSE acc[i]])

\* PositivePrices with `>= 0`: a price of 0 counts as a price
PositivePricesNonNegative(data) ==
    {x \in {data[i].priceUSD_hourly.n : i \in 1..Len(data)} : x >= 0}

\* line 224
PositivePrices(data) ==
    {x \in {data[i].priceUSD_hourly.n : i \in 1..Len(data)} : x > 0}

Min(S) == CHOOSE x \in S : \A y \in S : x <= y
Max(S) == CHOOSE x \in S : \A y \in S : x >= y

BASE_KEYS ==
    {"totalInstances", "providersCount", "lastUpdated", "priceRange",
     "byProvider", "byType"}

\* _generate_summary, lines 211-253
generate_summary(data, errs) ==
    IF data = <<>>
    THEN [present |-> TRUE, keys |-> BASE_KEYS,
          totalInstances |-> 0, providersCount |-> 0,
          priceRange |-> [min |-> 0, max |-> 0],
          byProvider |-> <<>>, byType |-> <<>>, errors |-> <<>>]
    ELSE LET prices == PositivePrices(data)
             by_provider == CountBy(data, "provider", <<>>)
             by_type == CountBy(data, "type", <<>>)
         IN  [present |-> TRUE, keys |-> BASE_KEYS \cup {"errors"},
              totalInstances |-> Len(data),
              providersCount |-> Len(by_provider),
              priceRange |-> [min |-> IF prices # {} THEN Min(prices) ELSE 0,
                              max |-> IF prices # {} THEN Max(prices) ELSE 0],
              byProvider |-> by_provider, byType |-> by_type, errors |-> errs]

\* RunResult with `len(all_data) > 1`
RunResultOffByOne(data) == IF Len(data) > 1 THEN "True" ELSE "False"

\* run(), line 299
RunResult(data) == IF Len(data) > 0 THEN "True" ELSE "False"

\* main(), line 310
ExitCode(r) == IF r = "True" THEN 0 ELSE 1

ValIdle ==
    /\ instance = EmptyDict
    /\ verdict = "pending"

Init ==
    /\ providers = SubSeq(REGISTRY, 1, NumProviders)
    /\ status = [p \in Range(SubSeq(REGISTRY, 1, NumProviders)) |-> "none"]
    /\ outcome = [p \in Range(SubSeq(REGISTRY, 1, NumProviders)) |-> NoOutcome]
    /\ results = <<>>
    /\ errors = <<>>
    /\ all_data = <<>>
    /\ summary = NoSummary
    /\ saved = FALSE
    /\ fatal = "none"
    /\ ret = "none"
    /\ pc = "idle"
    /\ ValIdle
    /\ BatchIdle
    /\ HttpIdle
    /\ CollIdle
    /\ NormIdle
    /\ RaceIdle
    /\ FxIdle

\* fetch_all_providers, lines 192-197: every provider is submitted to the pool
Dispatch ==
    /\ pc = "idle"
    /\ pc' = "collecting"
    /\ status' = [p \in DOMAIN status |-> "queued"]
    /\ UNCHANGED <<providers, outcome, results, errors, all_data, summary,
                   saved, fatal, ret>>
    /\ UNCHANGED valVars
    /\ UNCHANGED batchVars
    /\ UNCHANGED httpVars
    /\ UNCHANGED collVars
    /\ UNCHANGED normVars
    /\ UNCHANGED raceVars
    /\ UNCHANGED fxVars

Running == {p \in DOMAIN status : status[p] = "running"}
Queued  == {p \in DOMAIN status : status[p] = "queued"}

\* Start with a pool that has a worker for every task
StartUnbounded(p) ==
    /\ pc \in {"collecting", "shutdown"}
    /\ status[p] = "queued"
    /\ \A q \in Queued : IndexOf(providers, p) <= IndexOf(providers, q)
    /\ status' = [status EXCEPT ![p] = "running"]
    /\ UNCHANGED <<providers, outcome, results, errors, all_data, summary,
                   saved, fatal, ret, pc>>
    /\ UNCHANGED valVars
    /\ UNCHANGED batchVars
    /\ UNCHANGED httpVars
    /\ UNCHANGED collVars
    /\ UNCHANGED normVars
    /\ UNCHANGED raceVars
    /\ UNCHANGED fxVars

\* ThreadPoolExecutor: a free worker takes the oldest queued task
Start(p) ==
    /\ pc \in {"collecting", "shutdown"}
    /\ status[p] = "queued"
    /\ \A q \in Queued : IndexOf(providers, p) <= IndexOf(providers, q)
    /\ Cardinality(Running) < MAX_WORKERS
    /\ status' = [status EXCEPT ![p] = "running"]
    /\ UNCHANGED <<providers, outcome, results, errors, all_data, summary,
                   saved, fatal, ret, pc>>
    /\ UNCHANGED valVars
    /\ UNCHANGED batchVars
    /\ UNCHANGED httpVars
    /\ UNCHANGED collVars
    /\ UNCHANGED normVars
    /\ UNCHANGED raceVars
    /\ UNCHANGED fxVars

\* the task's _fetch_provider_data(p) returns
Finish(p) ==
    /\ pc \in {"collecting", "shutdown"}
    /\ status[p] = "running"
    /\ \E b \in CollectorBehaviours(p) :
          outcome' = [outcome EXCEPT ![p] = fetch_provider_data(p, b)]
    /\ status' = [status EXCEPT ![p] = "finished"]
    /\ UNCHANGED <<providers, results, errors, all_data, summary, saved,
                   fatal, ret, pc>>
    /\ UNCHANGED valVars
    /\ UNCHANGED batchVars
    /\ UNCHANGED httpVars
    /\ UNCHANGED collVars
    /\ UNCHANGED normVars
    /\ UNCHANGED raceVars
    /\ UNCHANGED fxVars

\* fetch_all_providers, lines 200-207: one iteration of the as_completed loop
Collect(p) ==
    /\ pc = "collecting"
    /\ status[p] = "finished"
    /\ status' = [status EXCEPT ![p] = "collected"]
    /\ IF Truthy(outcome[p].error)
       THEN /\ errors' = SetError(errors, p, outcome[p].error)
            /\ results' = SetResult(results, p, <<>>)
       ELSE /\ results' = SetResult(results, p, outcome[p].data)
            /\ UNCHANGED errors
    /\ UNCHANGED <<providers, outcome, all_data, summary, saved, fatal, ret, pc>>
    /\ UNCHANGED valVars
    /\ UNCHANGED batchVars
    /\ UNCHANGED httpVars
    /\ UNCHANGED collVars
    /\ UNCHANGED normVars
    /\ UNCHANGED raceVars
    /\ UNCHANGED fxVars

\* line 200: as_completed(..., timeout=TIMEOUT_SECONDS) raises TimeoutError
\* while some future is still unfinished
Timeout ==
    /\ pc = "collecting"
    /\ \E p \in DOMAIN status : status[p] \in {"queued", "running"}
    /\ pc' = "shutdown"
    /\ fatal' = "TimeoutError"
    /\ UNCHANGED <<providers, status, outcome, results, errors, all_data,
                   summary, saved, ret>>
    /\ UNCHANGED valVars
    /\ UNCHANGED batchVars
    /\ UNCHANGED httpVars
    /\ UNCHANGED collVars
    /\ UNCHANGED normVars
    /\ UNCHANGED raceVars
    /\ UNCHANGED fxVars

\* line 192 (the with block's exit waits for every task), then run()'s
\* except clause, lines 301-304
ShutdownDone ==
    /\ pc = "shutdown"
    /\ \A p \in DOMAIN status : status[p] \in {"finished", "collected"}
    /\ pc' = "done"
    /\ ret' = "False"
    /\ UNCHANGED <<providers, status, outcome, results, errors, all_data,
                   summary, saved, fatal>>
    /\ UNCHANGED valVars
    /\ UNCHANGED batchVars
    /\ UNCHANGED httpVars
    /\ UNCHANGED collVars
    /\ UNCHANGED normVars
    /\ UNCHANGED raceVars
    /\ UNCHANGED fxVars

\* Aggregate as soon as every task has finished, without waiting for the
\* as_completed loop to take every result
AggregateEarly ==
    /\ pc = "collecting"
    /\ \A p \in DOMAIN status : status[p] \in {"finished", "collected"}
    /\ all_data' = Combine(results)
    /\ summary' = generate_summary(Combine(results), errors)
    /\ pc' = "aggregated"
    /\ UNCHANGED <<providers, status, outcome, results, errors, saved, fatal, ret>>
    /\ UNCHANGED valVars
    /\ UNCHANGED batchVars
    /\ UNCHANGED httpVars
    /\ UNCHANGED collVars
    /\ UNCHANGED normVars
    /\ UNCHANGED raceVars
    /\ UNCHANGED fxVars

\* run(), lines 268-276: combine and summarise, once every future was collected
Aggregate ==
    /\ pc = "collecting"
    /\ \A p \in DOMAIN status : status[p] = "collected"
    /\ all_data' = Combine(results)
    /\ summary' = generate_summary(Combine(results), errors)
    /\ pc' = "aggregated"
    /\ UNCHANGED <<providers, status, outcome, results, errors, saved, fatal, ret>>
    /\ UNCHANGED valVars
    /\ UNCHANGED batchVars
    /\ UNCHANGED httpVars
    /\ UNCHANGED collVars
    /\ UNCHANGED normVars
    /\ UNCHANGED raceVars
    /\ UNCHANGED fxVars

\* run(), lines 278-304: write both files, print the summary, return
Report ==
    /\ pc = "aggregated"
    /\ saved' = TRUE
    /\ IF "errors" \in summary.keys
       THEN /\ ret' = RunResult(all_data)
            /\ UNCHANGED fatal
       ELSE /\ fatal' = "KeyError"
            /\ ret' = "False"
    /\ pc' = "done"
    /\ UNCHANGED <<providers, status, outcome, results, errors, all_data, summary>>
    /\ UNCHANGED valVars
    /\ UNCHANGED batchVars
    /\ UNCHANGED httpVars
    /\ UNCHANGED collVars
    /\ UNCHANGED normVars
    /\ UNCHANGED raceVars
    /\ UNCHANGED fxVars

Next ==
    \/ Dispatch
    \/ \E p \in DOMAIN status : Start(p)
    \/ \E p \in DOMAIN status : Finish(p)
    \/ \E p \in DOMAIN status : Collect(p)
    \/ Timeout
    \/ ShutdownDone
    \/ Aggregate
    \/ Report

Spec == Init /\ [][Next]_vars

---------------------------------------------------------------------------
(* A batch through _normalize_hetzner_data or validate_dataset *)

\* what fetch_hetzner_cloud() may hand over: new-format and legacy items
RawItem(format, type, eur) ==
    [EmptyDict EXCEPT
        !.platform = IF format = "new" THEN Str(<<"cloud">>) ELSE Absent,
        !.hetzner_metadata = IF format = "new" THEN Dct ELSE Absent,
        !.type = type,
        !.instanceType = Str(<<"cx11">>),
        !.vCPU = Num(2),
        !.memoryGiB = Num(4),
        !.priceEUR_hourly_net = eur,
        !.priceEUR_monthly_net = Num(3290000),
        !.locations = Lst(<<"fsn1">>),
        !.lastUpdated = IF format = "new" THEN Str(<<"2025-01-01T00:00:00">>) ELSE Absent]

RawItems ==
    {RawItem(f[1], f[2], f[3]) :
        f \in {"new", "legacy"}
              \X {Str(<<"cloud-server">>), Str(<<"bogus">>), Absent}
              \X {Num(5400), Num(0), Str(<<"0.0054">>)}}

\* what validate_dataset may be handed
DatasetItems ==
    {[EmptyDict EXCEPT
        !.provider = f[1], !.type = f[2], !.instanceType = f[3],
        !.priceUSD_hourly = Num(5940), !.vCPU = Num(2), !.memoryGiB = Num(4),
        !.lastUpdated = Str(<<"2025-01-01T00:00:00">>)] :
        f \in {Str(<<"hetzner">>), Str(<<"bogus">>)}
              \X {Str(<<"cloud-server">>), Str(<<"bogus">>)}
              \X {Str(<<"cx11">>), Num(7)}}

SeqsUpTo(S, n) == UNION {[1..m -> S] : m \in 0..n}

BatchInit ==
    /\ \/ fn = "_normalize_hetzner_data" /\ batch \in SeqsUpTo(RawItems, MaxBatch)
       \/ fn = "validate_dataset" /\ batch \in SeqsUpTo(DatasetItems, MaxBatch)
    /\ bi = 1
    /\ out = <<>>
    /\ ds_errors = <<>>
    /\ bpc = "loop"
    /\ ValIdle
    /\ OrchIdle
    /\ HttpIdle
    /\ CollIdle
    /\ NormIdle
    /\ RaceIdle
    /\ FxIdle

\* orchestrator.py lines 103-166: one iteration of `for item in data`
NormalizeStep ==
    /\ fn = "_normalize_hetzner_data"
    /\ bpc = "loop"
    /\ bi <= Len(batch)
    /\ LET r == normalize_hetzner_step(out, batch[bi])
       IN  /\ out' = r.normalized
           /\ bi' = IF r.continue THEN bi + 1 ELSE Len(batch) + 1
    /\ UNCHANGED <<fn, batch, ds_errors, bpc>>
    /\ UNCHANGED valVars
    /\ UNCHANGED orchVars
    /\ UNCHANGED httpVars
    /\ UNCHANGED collVars
    /\ UNCHANGED normVars
    /\ UNCHANGED raceVars
    /\ UNCHANGED fxVars

\* data_validator.py lines 114-118: one iteration of `for i, instance in enumerate(instances)`
ValidateDatasetStep ==
    /\ fn = "validate_dataset"
    /\ bpc = "loop"
    /\ bi <= Len(batch)
    /\ LET r == validate_dataset_step([valid_instances |-> out, errors |-> ds_errors],
                                      bi - 1, batch[bi])
       IN  /\ out' = r.valid_instances
           /\ ds_errors' = r.errors
           /\ bi' = IF r.continue THEN bi + 1 ELSE Len(batch) + 1
    /\ UNCHANGED <<fn, batch, bpc>>
    /\ UNCHANGED valVars
    /\ UNCHANGED orchVars
    /\ UNCHANGED httpVars
    /\ UNCHANGED collVars
    /\ UNCHANGED normVars
    /\ UNCHANGED raceVars
    /\ UNCHANGED fxVars

\* orchestrator.py line 168 / data_validator.py line 120: the loop is over
BatchReturn ==
    /\ bpc = "loop"
    /\ bi > Len(batch)
    /\ bpc' = "returned"
    /\ UNCHANGED <<fn, batch, bi, out, ds_errors>>
    /\ UNCHANGED valVars
    /\ UNCHANGED orchVars
    /\ UNCHANGED httpVars
    /\ UNCHANGED collVars
    /\ UNCHANGED normVars
    /\ UNCHANGED raceVars
    /\ UNCHANGED fxVars

BatchNext ==
    \/ NormalizeStep
    \/ ValidateDatasetStep
    \/ BatchReturn

BatchSpec == BatchInit /\ [][BatchNext]_vars

---------------------------------------------------------------------------
(* The HTTP clients as a state machine: a run of one client makes up to    *)
(* MaxRequests requests, one after the other, against servers drawn from   *)
(* Servers; one step per call and one per pass of the retry loop.          *)

\* the request that has just returned, as its caller saw it
Finished ==
    [valid |-> TRUE, key |-> cache_key, server |-> server, calls |-> calls,
     result |-> result, response |-> response, started |-> started,
     finished |-> now]

\* time between the return of a request and the next call; the first
\* request of a run is made at time 0 with the key "k1"
Gaps == {0, CACHE_DURATION - 1, CACHE_DURATION}
GapsNow == IF nreq = 0 THEN {0} ELSE Gaps
KeysNow == IF nreq = 0 THEN {"k1"} ELSE CacheKeys

HttpInit ==
    /\ impl \in {"v1", "v2"}
    /\ api_cache = EmptyCache
    /\ now = 0
    /\ cache_key = "none"
    /\ server = NoServer
    /\ started = 0
    /\ attempt = 0
    /\ calls = 0
    /\ sleeps = <<>>
    /\ response = NoResponse
    /\ result = "pending"
    /\ prev = NoPrev
    /\ nreq = 0
    /\ hpc = "idle"
    /\ ValIdle
    /\ BatchIdle
    /\ OrchIdle
    /\ CollIdle
    /\ NormIdle
    /\ RaceIdle
    /\ FxIdle

\* the part of a call both clients share: the arguments, the caller's
\* record of the previous request, the cache lookup's result `hit`
Call(key, srv, t, hit) ==
    /\ now' = t
    /\ started' = t
    /\ cache_key' = key
    /\ server' = srv
    /\ api_cache' = hit.cache
    /\ prev' = IF hpc = "returned" THEN Finished ELSE prev
    /\ nreq' = nreq + 1
    /\ attempt' = 0
    /\ calls' = 0
    /\ sleeps' = <<>>
    /\ response' = NoResponse
    /\ IF hit.data # "None"
       THEN result' = hit.data /\ hpc' = "returned"
       ELSE result' = "pending" /\ hpc' = "loop"

\* fetch_hetzner.py make_api_request, lines 111-119: the call up to the loop
make_api_request ==
    /\ impl = "v1"
    /\ hpc \in {"idle", "returned"}
    /\ nreq < MaxRequests
    /\ \E key \in KeysNow, srv \in Servers, gap \in GapsNow :
           Call(key, srv, now + gap, get_from_cache(api_cache, key, now + gap))
    /\ UNCHANGED impl
    /\ UNCHANGED valVars
    /\ UNCHANGED batchVars
    /\ UNCHANGED orchVars
    /\ UNCHANGED collVars
    /\ UNCHANGED normVars
    /\ UNCHANGED raceVars
    /\ UNCHANGED fxVars

\* fetch_hetzner_v2.py _make_request, lines 72-77: the call up to the loop
v2_make_request ==
    /\ impl = "v2"
    /\ hpc \in {"idle", "returned"}
    /\ nreq < MaxRequests
    /\ \E key \in KeysNow, srv \in Servers, gap \in GapsNow :
           Call(key, srv, now + gap, v2_get_from_cache(api_cache, key, now + gap))
    /\ UNCHANGED impl
    /\ UNCHANGED valVars
    /\ UNCHANGED batchVars
    /\ UNCHANGED orchVars
    /\ UNCHANGED collVars
    /\ UNCHANGED normVars
    /\ UNCHANGED raceVars
    /\ UNCHANGED fxVars

\* Pass with a loop over range(retry_count + 2)
PassOneMore(delay, r, o, retry_count) ==
    /\ calls' = calls + 1
    /\ response' = r
    /\ sleeps' = sleeps
                 \o (IF delay > 0 THEN <<Sleep("rate", delay, calls)>> ELSE <<>>)
                 \o (IF o.wait > 0 THEN <<Sleep("backoff", o.wait, calls + 1)>> ELSE <<>>)
    /\ now' = now + delay + o.wait
    /\ api_cache' = IF o.store
                    THEN set_cache(api_cache, cache_key, o.data, now + delay)
                    ELSE api_cache
    /\ IF o.ctl = "return"
       THEN result' = o.data /\ hpc' = "returned" /\ attempt' = attempt
       ELSE IF o.ctl = "continue" /\ attempt < retry_count + 1
       THEN result' = result /\ hpc' = "loop" /\ attempt' = attempt + 1
       ELSE result' = "None" /\ hpc' = "returned" /\ attempt' = attempt
    /\ UNCHANGED <<impl, cache_key, server, started, prev, nreq>>

\* one pass of `for attempt in range(retry_count + 1)`: the rate-limit
\* sleep `delay` (0 for none), requests.get answering r, the outcome o of
\* the status handling, and the loop's end after the last pass
Pass(delay, r, o, retry_count) ==
    /\ calls' = calls + 1
    /\ response' = r
    /\ sleeps' = sleeps
                 \o (IF delay > 0 THEN <<Sleep("rate", delay, calls)>> ELSE <<>>)
                 \o (IF o.wait > 0 THEN <<Sleep("backoff", o.wait, calls + 1)>> ELSE <<>>)
    /\ now' = now + delay + o.wait
    /\ api_cache' = IF o.store
                    THEN set_cache(api_cache, cache_key, o.data, now + delay)
                    ELSE api_cache
    /\ IF o.ctl = "return"
       THEN result' = o.data /\ hpc' = "returned" /\ attempt' = attempt
       ELSE IF o.ctl = "continue" /\ attempt < retry_count
       THEN result' = result /\ hpc' = "loop" /\ attempt' = attempt + 1
       ELSE result' = "None" /\ hpc' = "returned" /\ attempt' = attempt
    /\ UNCHANGED <<impl, cache_key, server, started, prev, nreq>>

\* fetch_hetzner.py make_api_request, lines 121-184
make_api_request_attempt ==
    /\ impl = "v1"
    /\ hpc = "loop"
    /\ Pass(IF attempt > 0 THEN API_RATE_LIMIT_DELAY ELSE 0,
            ResponseAt(server, attempt),
            HandleResponse(ResponseAt(server, attempt), attempt, API_RETRY_COUNT),
            API_RETRY_COUNT)
    /\ UNCHANGED valVars
    /\ UNCHANGED batchVars
    /\ UNCHANGED orchVars
    /\ UNCHANGED collVars
    /\ UNCHANGED normVars
    /\ UNCHANGED raceVars
    /\ UNCHANGED fxVars

\* fetch_hetzner_v2.py _make_request, lines 79-121
v2_make_request_attempt ==
    /\ impl = "v2"
    /\ hpc = "loop"
    /\ Pass(api_rate_limit_delay,
            ResponseAt(server, attempt),
            v2_HandleResponse(ResponseAt(server, attempt), attempt, api_retry_count),
            api_retry_count)
    /\ UNCHANGED valVars
    /\ UNCHANGED batchVars
    /\ UNCHANGED orchVars
    /\ UNCHANGED collVars
    /\ UNCHANGED normVars
    /\ UNCHANGED raceVars
    /\ UNCHANGED fxVars

HttpNext ==
    \/ make_api_request
    \/ make_api_request_attempt
    \/ v2_make_request
    \/ v2_make_request_attempt

HttpSpec == HttpInit /\ [][HttpNext]_vars

---------------------------------------------------------------------------
(* The Hetzner collectors and their credentials: fetch_hetzner.py          *)
(* fetch_hetzner_cloud and fetch_hetzner_dedicated (v1), fetch_hetzner_v2  *)
(* HetznerCloudCollector and HetznerDedicatedCollector (v2),               *)
(* fetch_hetzner_v3 HetznerDataCollector with its cloud collector (v3).    *)
(* A collector is the sequence of its API requests; an answer is None or   *)
(* data, and the records made of an answer stand as one record.            *)

Collectors ==
    {"v1.fetch_hetzner_cloud", "v1.fetch_hetzner_dedicated",
     "v2.collect_all_cloud_services", "v2.collect_all_dedicated_services",
     "v3.collect_all_hetzner_data"}

\* a request of a collector: the API and endpoint asked, whether records
\* are made of its answer, and the earlier request (0: none) whose answer
\* must be data for this one to be reached
Site(a, e, em, aft) == [api |-> a, endpoint |-> e, emits |-> em, after |-> aft]

Sites(c) ==
    IF c = "v1.fetch_hetzner_cloud"
    THEN <<Site("cloud", "server_types", TRUE, 0),
           Site("cloud", "pricing", FALSE, 0),
           Site("cloud", "load_balancer_types", TRUE, 0),
           Site("cloud", "pricing", TRUE, 0),
           Site("cloud", "pricing", TRUE, 0),
           Site("cloud", "pricing", TRUE, 0)>>
    ELSE IF c = "v1.fetch_hetzner_dedicated"
    THEN <<Site("robot", "order/server/product", TRUE, 0),
           Site("robot", "order/server/addon", FALSE, 1)>>
    ELSE IF c = "v2.collect_all_cloud_services"
    THEN <<Site("cloud", "server_types", TRUE, 0),
           Site("cloud", "pricing", FALSE, 1),
           Site("cloud", "pricing", FALSE, 1),
           Site("cloud", "load_balancer_types", TRUE, 0),
           Site("cloud", "pricing", FALSE, 4),
           Site("cloud", "pricing", TRUE, 0)>>
    ELSE IF c = "v2.collect_all_dedicated_services"
    THEN <<Site("robot", "order/server/product", TRUE, 0)>>
    ELSE <<Site("cloud", "server_types", FALSE, 0),
           Site("cloud", "locations", FALSE, 1),
           Site("cloud", "pricing", TRUE, 2),
           Site("cloud", "load_balancer_types", FALSE, 0),
           Site("cloud", "locations", FALSE, 4),
           Site("cloud", "pricing", TRUE, 5)>>

\* the HTTP clients of v1 and v2 cache the answers; v3 asks through the
\* hcloud library and requests.get
HasCache(c) == c # "v3.collect_all_hetzner_data"

\* the collector's own test of its credentials, before any request:
\*   fetch_hetzner.py 924-927 and 1573-1576, fetch_hetzner_v2.py 612,
\*   fetch_hetzner_v3.py 543
CredentialsChecked(c) ==
    IF c \in {"v1.fetch_hetzner_cloud", "v3.collect_all_hetzner_data"}
    THEN cloud_api_token # ""
    ELSE IF c \in {"v1.fetch_hetzner_dedicated", "v2.collect_all_dedicated_services"}
    THEN robot_user # "" /\ robot_password # ""
    ELSE TRUE

\* cloud_api_request with the token test of lines 125-127 left out
cloud_api_request_unguarded(c) == TRUE

\* fetch_hetzner_v2.py cloud_api_request, lines 125-127: whether the
\* request goes on to _make_request
cloud_api_request(c) ==
    IF c = "v2.collect_all_cloud_services" THEN cloud_api_token # "" ELSE TRUE

\* fetch_hetzner_v2.py robot_api_request, lines 139-141, and
\* fetch_hetzner.py make_robot_api_request, lines 240-243 (get_robot_api_auth)
robot_api_request(c) ==
    IF c \in {"v1.fetch_hetzner_dedicated", "v2.collect_all_dedicated_services"}
    THEN robot_user # "" /\ robot_password # ""
    ELSE TRUE

RequestAllowed(c, site) ==
    IF site.api = "cloud" THEN cloud_api_request(c) ELSE robot_api_request(c)

CredInit ==
    /\ coll \in Collectors
    /\ cloud_api_token \in {"", "token"}
    /\ robot_user \in {"", "user"}
    /\ robot_password \in {"", "password"}
    /\ network = 0
    /\ fetched = {}
    /\ cin = NoInput
    /\ ci = 1
    /\ cout = <<>>
    /\ cpc = "idle"
    /\ ValIdle
    /\ BatchIdle
    /\ OrchIdle
    /\ HttpIdle
    /\ NormIdle
    /\ RaceIdle
    /\ FxIdle

\* the collector is called: it tests its credentials and returns [] at
\* once when they are unset
CollectorCall ==
    /\ coll \in Collectors
    /\ cpc = "idle"
    /\ cpc' = IF CredentialsChecked(coll) THEN "loop" ELSE "returned"
    /\ UNCHANGED <<coll, cloud_api_token, robot_user, robot_password, network,
                   fetched, cin, ci, cout>>
    /\ UNCHANGED valVars
    /\ UNCHANGED batchVars
    /\ UNCHANGED orchVars
    /\ UNCHANGED httpVars
    /\ UNCHANGED normVars
    /\ UNCHANGED raceVars
    /\ UNCHANGED fxVars

\* the collector's next request is answered `reply` ("None" or "data"),
\* over the network when `sent`
Answer(site, reply, sent) ==
    /\ network' = IF sent THEN network + 1 ELSE network
    /\ fetched' = IF reply = "data" THEN fetched \cup {ci} ELSE fetched
    /\ cout' = IF reply = "data" /\ site.emits
               THEN Append(cout, [type |-> site.endpoint])
               ELSE cout
    /\ ci' = ci + 1
    /\ cpc' = IF \/ ci = Len(Sites(coll))
                 \/ (coll = "v1.fetch_hetzner_dedicated" /\ ci = 1 /\ reply # "data")
              THEN "returned"
              ELSE "loop"

\* one request of the collector: not reached, refused for want of
\* credentials, served from the client's cache, or sent
CollectorRequest ==
    /\ coll \in Collectors
    /\ cpc = "loop"
    /\ LET site == Sites(coll)[ci]
       IN IF site.after > 0 /\ site.after \notin fetched
          THEN Answer(site, "None", FALSE)
          ELSE IF ~RequestAllowed(coll, site)
          THEN Answer(site, "None", FALSE)
          ELSE IF /\ HasCache(coll)
                  /\ \E j \in fetched : Sites(coll)[j].endpoint = site.endpoint
          THEN Answer(site, "data", FALSE)
          ELSE \E reply \in {"None", "data"} : Answer(site, reply, TRUE)
    /\ UNCHANGED <<coll, cloud_api_token, robot_user, robot_password, cin>>
    /\ UNCHANGED valVars
    /\ UNCHANGED batchVars
    /\ UNCHANGED orchVars
    /\ UNCHANGED httpVars
    /\ UNCHANGED normVars
    /\ UNCHANGED raceVars
    /\ UNCHANGED fxVars

CredNext == CollectorCall \/ CollectorRequest

CredSpec == CredInit /\ [][CredNext]_vars

---------------------------------------------------------------------------
(* The pricing join of the server types: fetch_hetzner.py                  *)
(* process_server_types_with_pricing (v1), fetch_hetzner_v2.py             *)
(* _process_server_types (v2), fetch_hetzner_v3.py _collect_server_types   *)
(* (v3). Prices are integers in units of the smallest price step.          *)

\* a net price is 1..MaxPrice; a pricing entry lists at most MaxPoints
\* price points; the API lists at most MaxTypes server types
MaxPrice == 2
MaxPoints == 2
MaxTypes == 2

\* an element of pricing_info['prices']: location "" stands for a price
\* point without a location
PricePoints == [location : {"", "fsn1"}, hourly : 1..MaxPrice, monthly : 1..MaxPrice]

\* pricing_by_type.get(name, {}): no entry for the name, an entry without
\* the key 'prices', an entry with its list of price points
NoMatch == [match |-> FALSE, has_prices |-> FALSE, prices |-> <<>>]
PricingInfos ==
    {NoMatch, [match |-> TRUE, has_prices |-> FALSE, prices |-> <<>>]}
    \cup {[match |-> TRUE, has_prices |-> TRUE, prices |-> ps] :
              ps \in SeqsUpTo(PricePoints, MaxPoints)}

\* the arguments: the server types' names and the name-to-pricing map; the
\* entry of "cx21" is absent or holds one price point
JoinInputs ==
    {[server_types |-> st,
      pricing |-> [n \in {"cx11", "cx21"} |-> IF n = "cx11" THEN a ELSE b]] :
        st \in SeqsUpTo({"cx11", "cx21"}, MaxTypes) \ {<<>>},
        a \in PricingInfos,
        b \in {NoMatch,
               [match |-> TRUE, has_prices |-> TRUE,
                prices |-> <<[location |-> "fsn1", hourly |-> 1, monthly |-> 1]>>]}}

\* `if location:` (v2 line 214, v3 line 138)
IsLocated(pt) == pt.location # ""

\* regional_pricing, v2 lines 208-226 and v3 lines 133-152
RegionalPricing(info) ==
    [i \in DOMAIN SelectSeq(info.prices, IsLocated) |->
        [location |-> SelectSeq(info.prices, IsLocated)[i].location,
         hourly_net |-> SelectSeq(info.prices, IsLocated)[i].hourly,
         monthly_net |-> SelectSeq(info.prices, IsLocated)[i].monthly]]

\* the dict appended to processed_servers; v1 has no key regionalPricing
\* and keeps the whole price list as pricing_details
ServerData(name, hourly, monthly, regional, details) ==
    [instanceType |-> name,
     priceEUR_hourly_net |-> hourly,
     priceEUR_monthly_net |-> monthly,
     regionalPricing |-> regional,
     pricing_details |-> details]

\* fetch_hetzner.py lines 530-578: one server type; the price is the first
\* price point's
process_server_types_with_pricing(name, info) ==
    <<ServerData(name,
                 IF info.prices # <<>> THEN Num(info.prices[1].hourly) ELSE None,
                 IF info.prices # <<>> THEN Num(info.prices[1].monthly) ELSE None,
                 Absent,
                 Lst(info.prices))>>

\* fetch_hetzner_v2.py lines 202-347: one server type
v2_process_server_types(name, info) ==
    LET regional == IF info.has_prices THEN RegionalPricing(info) ELSE <<>>
    IN <<ServerData(name,
                    IF regional # <<>>
                    THEN Num(Min({regional[i].hourly_net : i \in DOMAIN regional}))
                    ELSE None,
                    IF regional # <<>>
                    THEN Num(Min({regional[i].monthly_net : i \in DOMAIN regional}))
                    ELSE None,
                    Lst(regional),
                    Absent)>>

\* fetch_hetzner_v3.py lines 123-269: one server type
v3_collect_server_types(name, info) ==
    IF ~info.has_prices THEN <<>>
    ELSE IF RegionalPricing(info) = <<>> THEN <<>>
    ELSE v2_process_server_types(name, info)

JoinInit ==
    /\ coll \in {"v1.process_server_types_with_pricing",
                 "v2._process_server_types", "v3._collect_server_types"}
    /\ cin \in JoinInputs
    /\ cloud_api_token = "token"
    /\ robot_user = ""
    /\ robot_password = ""
    /\ network = 0
    /\ fetched = {}
    /\ ci = 1
    /\ cout = <<>>
    /\ cpc = "loop"
    /\ ValIdle
    /\ BatchIdle
    /\ OrchIdle
    /\ HttpIdle
    /\ NormIdle
    /\ RaceIdle
    /\ FxIdle

\* one pass of the loop over the server types
ProcessServerType ==
    /\ cpc = "loop"
    /\ coll \in {"v1.process_server_types_with_pricing",
                 "v2._process_server_types", "v3._collect_server_types"}
    /\ LET name == cin.server_types[ci]
           info == cin.pricing[name]
       IN cout' = cout \o
                  (IF coll = "v1.process_server_types_with_pricing"
                   THEN process_server_types_with_pricing(name, info)
                   ELSE IF coll = "v2._process_server_types"
                   THEN v2_process_server_types(name, info)
                   ELSE v3_collect_server_types(name, info))
    /\ ci' = ci + 1
    /\ cpc' = IF ci = Len(cin.server_types) THEN "returned" ELSE "loop"
    /\ UNCHANGED <<coll, cloud_api_token, robot_user, robot_password, network,
                   fetched, cin>>
    /\ UNCHANGED valVars
    /\ UNCHANGED batchVars
    /\ UNCHANGED orchVars
    /\ UNCHANGED httpVars
    /\ UNCHANGED normVars
    /\ UNCHANGED raceVars
    /\ UNCHANGED fxVars

JoinNext == ProcessServerType

JoinSpec == JoinInit /\ [][JoinNext]_vars

---------------------------------------------------------------------------
(* One provisional record normalized MaxCalls times, the clock moving on   *)
(* between the calls                                                       *)

\* provisional records: what the Hetzner collector hands over, and records
\* of the other providers with their priceUSD
NormInputs ==
    RawItems
    \cup {[RawItem("legacy", Str(<<"cloud-server">>), Num(0)) EXCEPT !.priceUSD = v] :
            v \in {None, Num(0), Num(5)}}

NormInit ==
    /\ \/ /\ nfn = "normalize_instance_data"
          /\ nprovider \in Range(REGISTRY) \cup {"bogus"}
       \/ /\ nfn = "_normalize_hetzner_data"
          /\ nprovider = "hetzner"
    /\ raw_data \in NormInputs
    /\ nclock = 0
    /\ canon = <<>>
    /\ ValIdle
    /\ BatchIdle
    /\ OrchIdle
    /\ HttpIdle
    /\ CollIdle
    /\ RaceIdle
    /\ FxIdle

\* one call, made at the time t; neither function assigns to its argument
NormalizeCall ==
    /\ nfn # "none"
    /\ Len(canon) < MaxCalls
    /\ \E t \in {nclock, nclock + 1} :
          /\ nclock' = t
          /\ canon' = Append(canon,
                IF nfn = "normalize_instance_data"
                THEN normalize_instance_data(raw_data, nprovider, t)
                ELSE Returned(StampedAt(normalize_hetzner_data(<<raw_data>>, <<>>), t)))
    /\ UNCHANGED <<nfn, raw_data, nprovider>>
    /\ UNCHANGED valVars
    /\ UNCHANGED batchVars
    /\ UNCHANGED orchVars
    /\ UNCHANGED httpVars
    /\ UNCHANGED collVars
    /\ UNCHANGED raceVars
    /\ UNCHANGED fxVars

NormNext == NormalizeCall

NormSpec == NormInit /\ [][NormNext]_vars

---------------------------------------------------------------------------
(* The run with the registry as __init__ builds it: all six providers,     *)
(* Hetzner through fetch_hetzner_cloud and _normalize_hetzner_data, the    *)
(* five other providers through their placeholder fetchers                 *)

\* what fetch_hetzner_cloud() does (line 69): it returns raw items or raises
FetchHetznerCloud ==
    {[raises |-> FALSE, data |-> d, msg |-> <<>>] : d \in SeqsUpTo(RawItems, MaxRecs)}
    \cup {[raises |-> TRUE, data |-> <<>>, msg |-> m] : m \in Messages}

\* _fetch_hetzner, lines 65-73, on what fetch_hetzner_cloud did
fetch_hetzner(b) ==
    IF b.raises THEN b
    ELSE [raises |-> FALSE, data |-> normalize_hetzner_data(b.data, <<>>), msg |-> <<>>]

\* self.providers[provider]() (line 176): _fetch_hetzner, or one of
\* _fetch_aws, _fetch_azure, _fetch_gcp, _fetch_oci, _fetch_ovh (lines 75-98)
ProviderCalls(p) ==
    IF p = "hetzner" THEN {fetch_hetzner(b) : b \in FetchHetznerCloud}
    ELSE {[raises |-> FALSE, data |-> <<>>, msg |-> <<>>]}

RegistryInit ==
    /\ providers = REGISTRY
    /\ status = [p \in Range(REGISTRY) |-> "none"]
    /\ outcome = [p \in Range(REGISTRY) |-> NoOutcome]
    /\ results = <<>>
    /\ errors = <<>>
    /\ all_data = <<>>
    /\ summary = NoSummary
    /\ saved = FALSE
    /\ fatal = "none"
    /\ ret = "none"
    /\ pc = "idle"
    /\ ValIdle
    /\ BatchIdle
    /\ HttpIdle
    /\ CollIdle
    /\ NormIdle
    /\ RaceIdle
    /\ FxIdle

\* the task's _fetch_provider_data(p) returns, lines 170-186
FetchProviderData(p) ==
    /\ pc \in {"collecting", "shutdown"}
    /\ status[p] = "running"
    /\ \E b \in ProviderCalls(p) :
          outcome' = [outcome EXCEPT ![p] = fetch_provider_data(p, b)]
    /\ status' = [status EXCEPT ![p] = "finished"]
    /\ UNCHANGED <<providers, results, errors, all_data, summary, saved,
                   fatal, ret, pc>>
    /\ UNCHANGED valVars
    /\ UNCHANGED batchVars
    /\ UNCHANGED httpVars
    /\ UNCHANGED collVars
    /\ UNCHANGED normVars
    /\ UNCHANGED raceVars
    /\ UNCHANGED fxVars

RegistryNext ==
    \/ Dispatch
    \/ \E p \in DOMAIN status : Start(p)
    \/ \E p \in DOMAIN status : FetchProviderData(p)
    \/ \E p \in DOMAIN status : Collect(p)
    \/ Timeout
    \/ ShutdownDone
    \/ Aggregate
    \/ Report

RegistrySpec == RegistryInit /\ [][RegistryNext]_vars

---------------------------------------------------------------------------
(* The shared cache under two concurrent callers: each thread runs         *)
(* get_from_cache(cache_key) and, on a miss, set_cache(cache_key, data),   *)
(* as make_api_request / _make_request do around a successful fetch. One   *)
(* step is one access to the dict: the interpreter may switch threads      *)
(* between any two of them. Neither module takes a lock.                   *)

\* the clock moves on by at most MaxTicks during the run
MaxTicks == 2

\* the key both callers use
RaceKey == "k1"

\* the cache at the start: empty, or holding an entry for the key that is
\* one tick from expiry, or expired
RaceCaches ==
    {EmptyCache}
    \cup {set_cache(EmptyCache, RaceKey, "dict", ts) : ts \in {0, 1}}

RaceInit ==
    /\ impl \in {"v1", "v2"}
    /\ api_cache \in RaceCaches
    /\ now = CACHE_DURATION
    /\ cache_key = RaceKey
    /\ server = NoServer
    /\ started = CACHE_DURATION
    /\ attempt = 0
    /\ calls = 0
    /\ sleeps = <<>>
    /\ response = NoResponse
    /\ result = "pending"
    /\ prev = NoPrev
    /\ nreq = 0
    /\ hpc = "idle"
    /\ tpc = [t \in Threads |-> "in"]
    /\ tlocal = [t \in Threads |-> NoLocal]
    /\ tret = [t \in Threads |-> NoReturn]
    /\ ValIdle
    /\ BatchIdle
    /\ OrchIdle
    /\ CollIdle
    /\ NormIdle
    /\ FxIdle

\* datetime.now() / time.time() moves on
Tick ==
    /\ \E t \in Threads : tpc[t] \notin {"idle", "done"}
    /\ now < CACHE_DURATION + MaxTicks
    /\ now' = now + 1
    /\ UNCHANGED <<impl, api_cache, cache_key, server, started, attempt, calls,
                   sleeps, response, result, prev, nreq, hpc>>
    /\ UNCHANGED <<tpc, tlocal, tret>>
    /\ UNCHANGED valVars
    /\ UNCHANGED batchVars
    /\ UNCHANGED orchVars
    /\ UNCHANGED collVars
    /\ UNCHANGED normVars
    /\ UNCHANGED fxVars

\* what a step of a thread leaves alone
CacheStepFrame ==
    /\ UNCHANGED <<impl, now, cache_key, server, started, attempt, calls,
                   sleeps, response, result, prev, nreq, hpc>>
    /\ UNCHANGED valVars
    /\ UNCHANGED batchVars
    /\ UNCHANGED orchVars
    /\ UNCHANGED collVars
    /\ UNCHANGED normVars
    /\ UNCHANGED fxVars

\* fetch_hetzner.py line 83, fetch_hetzner_v2.py line 59:
\* `if cache_key in _api_cache`; without the key the function returns None
get_from_cache_in(t) ==
    /\ tpc[t] = "in"
    /\ IF api_cache[RaceKey].full
       THEN /\ tpc' = [tpc EXCEPT ![t] = "read"]
            /\ UNCHANGED tret
       ELSE /\ tpc' = [tpc EXCEPT ![t] = "set"]
            /\ tret' = [tret EXCEPT ![t] = [NoReturn EXCEPT !.kind = "None", !.at = now]]
    /\ UNCHANGED <<api_cache, tlocal>>
    /\ CacheStepFrame

\* fetch_hetzner.py line 84, fetch_hetzner_v2.py line 60:
\* `cached_data, timestamp = _api_cache[cache_key]`; KeyError without the key
get_from_cache_read(t) ==
    /\ tpc[t] = "read"
    /\ IF api_cache[RaceKey].full
       THEN /\ tlocal' = [tlocal EXCEPT ![t] = [cached_data |-> api_cache[RaceKey].data,
                                                 timestamp |-> api_cache[RaceKey].ts]]
            /\ tpc' = [tpc EXCEPT ![t] = "check"]
            /\ UNCHANGED tret
       ELSE /\ tret' = [tret EXCEPT ![t] = [NoReturn EXCEPT !.kind = "KeyError", !.at = now]]
            /\ tpc' = [tpc EXCEPT ![t] = "done"]
            /\ UNCHANGED tlocal
    /\ UNCHANGED api_cache
    /\ CacheStepFrame

\* fetch_hetzner.py lines 85-87, fetch_hetzner_v2.py lines 61-63: the age
\* test; a fresh entry is returned, an expired one is deleted next (v1) or
\* left and None returned (v2)
get_from_cache_check(t) ==
    /\ tpc[t] = "check"
    /\ IF now - tlocal[t].timestamp < (IF impl = "v1" THEN CACHE_DURATION ELSE cache_duration)
       THEN /\ tret' = [tret EXCEPT ![t] = [kind |-> "data",
                                            data |-> tlocal[t].cached_data,
                                            timestamp |-> tlocal[t].timestamp,
                                            at |-> now]]
            /\ tpc' = [tpc EXCEPT ![t] = "done"]
       ELSE IF impl = "v1"
       THEN /\ tpc' = [tpc EXCEPT ![t] = "del"]
            /\ UNCHANGED tret
       ELSE /\ tpc' = [tpc EXCEPT ![t] = "set"]
            /\ tret' = [tret EXCEPT ![t] = [NoReturn EXCEPT !.kind = "None", !.at = now]]
    /\ UNCHANGED <<api_cache, tlocal>>
    /\ CacheStepFrame

\* fetch_hetzner.py lines 88-92: `del _api_cache[cache_key]`, KeyError
\* without the key; then return None
get_from_cache_del(t) ==
    /\ tpc[t] = "del"
    /\ IF api_cache[RaceKey].full
       THEN /\ api_cache' = [api_cache EXCEPT ![RaceKey] = NoEntry]
            /\ tret' = [tret EXCEPT ![t] = [NoReturn EXCEPT !.kind = "None", !.at = now]]
            /\ tpc' = [tpc EXCEPT ![t] = "set"]
       ELSE /\ tret' = [tret EXCEPT ![t] = [NoReturn EXCEPT !.kind = "KeyError", !.at = now]]
            /\ tpc' = [tpc EXCEPT ![t] = "done"]
            /\ UNCHANGED api_cache
    /\ UNCHANGED tlocal
    /\ CacheStepFrame

\* fetch_hetzner.py lines 94-97, fetch_hetzner_v2.py lines 65-67: after the
\* miss the caller fetches the data and stores it
set_cache_store(t) ==
    /\ tpc[t] = "set"
    /\ api_cache' = set_cache(api_cache, RaceKey, "dict", now)
    /\ tpc' = [tpc EXCEPT ![t] = "done"]
    /\ UNCHANGED <<tlocal, tret>>
    /\ CacheStepFrame

RaceNext ==
    \/ Tick
    \/ \E t \in Threads : get_from_cache_in(t)
    \/ \E t \in Threads : get_from_cache_read(t)
    \/ \E t \in Threads : get_from_cache_check(t)
    \/ \E t \in Threads : get_from_cache_del(t)
    \/ \E t \in Threads : set_cache_store(t)

RaceSpec == RaceInit /\ [][RaceNext]_vars

---------------------------------------------------------------------------
(* convert_currency called up to MaxConversions times in one process *)

\* the arguments: amounts 0, 1.0, 2.0 and None; currencies with a fallback
\* rate, one without, and USD
FxAmounts == {Num(0), Num(RateUnit), Num(2 * RateUnit), None}
FxCurrencies == {"EUR", "GBP", "XXX", "USD"}

FxInit ==
    /\ rate_cache = EmptyRates
    /\ cache_expiry = None
    /\ fxclock = 0
    /\ fxargs = NoArgs
    /\ fxlookup = "no call"
    /\ fxret = FxRaise("pending")
    /\ nconv = 0
    /\ ValIdle
    /\ BatchIdle
    /\ OrchIdle
    /\ HttpIdle
    /\ CollIdle
    /\ NormIdle
    /\ RaceIdle

\* convert_currency(amount, from_currency, to_currency), lines 77-109,
\* called gap seconds after the call before
ConvertCurrency ==
    /\ nconv < MaxConversions
    /\ \E amount \in FxAmounts, from_currency \in FxCurrencies,
          to_currency \in {"USD", "EUR"}, gap \in {0, RATE_CACHE_DURATION},
          resp \in FxResponses :
          LET t == fxclock + gap
              looked == get_exchange_rates(rate_cache, cache_expiry, t, resp)
          IN  /\ fxclock' = t
              /\ fxargs' = [amount |-> amount, from_currency |-> from_currency,
                            to_currency |-> to_currency]
              /\ IF from_currency = to_currency
                 THEN /\ fxret' = FxReturn(amount)
                      /\ fxlookup' = "no lookup"
                      /\ UNCHANGED <<rate_cache, cache_expiry>>
                 ELSE /\ fxret' = convert_currency_body(amount, from_currency, looked.rates)
                      /\ fxlookup' = looked.did
                      /\ rate_cache' = looked.cache
                      /\ cache_expiry' = looked.expiry
    /\ nconv' = nconv + 1
    /\ UNCHANGED valVars
    /\ UNCHANGED batchVars
    /\ UNCHANGED orchVars
    /\ UNCHANGED httpVars
    /\ UNCHANGED collVars
    /\ UNCHANGED normVars
    /\ UNCHANGED raceVars

FxNext == ConvertCurrency

FxSpec == FxInit /\ [][FxNext]_vars

---------------------------------------------------------------------------
(* _generate_summary on its own (specification SummarySpec) *)

MaxSummaryRecs == 3

\* the records _generate_summary may be handed: it reads their provider,
\* type and priceUSD_hourly (lines 224, 229, 237)
SummaryRecords ==
    {[EmptyDict EXCEPT !.provider = f[1], !.type = f[2], !.priceUSD_hourly = f[3]] :
     f \in {Str(<<"hetzner">>), Str(<<"aws">>)}
          \X {Str(<<"cloud-server">>), Str(<<"cloud-volume">>)}
          \X ({None} \cup {Num(x) : x \in -1..2})}

\* self.errors at the time of the call (line 252)
SummaryErrors == {<<>>, <<[provider |-> "aws", message |-> Str(<<"boom">>)]>>}

\* line 224: `item['priceUSD_hourly'] > 0` raises TypeError on a price that
\* is not a number
SummaryRaises(data) == \E i \in 1..Len(data) : ~IsNumber(data[i].priceUSD_hourly)

SummaryInit ==
    /\ providers = <<>>
    /\ status = <<>>
    /\ outcome = <<>>
    /\ results = <<>>
    /\ errors \in SummaryErrors
    /\ all_data \in SeqsUpTo(SummaryRecords, MaxSummaryRecs)
    /\ summary = NoSummary
    /\ saved = FALSE
    /\ fatal = "none"
    /\ ret = "none"
    /\ pc = "combined"
    /\ ValIdle
    /\ BatchIdle
    /\ HttpIdle
    /\ CollIdle
    /\ NormIdle
    /\ RaceIdle
    /\ FxIdle

\* run(), line 276: summary = self._generate_summary(all_data); an exception
\* leaves through run()'s except clause (lines 301-304)
GenerateSummary ==
    /\ pc = "combined"
    /\ IF SummaryRaises(all_data)
       THEN /\ fatal' = "TypeError"
            /\ ret' = "False"
            /\ pc' = "done"
            /\ UNCHANGED summary
       ELSE /\ summary' = generate_summary(all_data, errors)
            /\ pc' = "aggregated"
            /\ UNCHANGED <<fatal, ret>>
    /\ UNCHANGED <<providers, status, outcome, results, errors, all_data, saved>>
    /\ UNCHANGED valVars
    /\ UNCHANGED batchVars
    /\ UNCHANGED httpVars
    /\ UNCHANGED collVars
    /\ UNCHANGED normVars
    /\ UNCHANGED raceVars
    /\ UNCHANGED fxVars

SummaryNext == GenerateSummary

SummarySpec == SummaryInit /\ [][SummaryNext]_vars

---------------------------------------------------------------------------
(* Properties of the orchestrator (specification Spec) *)

\* the providers whose collector raised
Threw == {p \in DOMAIN outcome : outcome[p].error.k = "str"}

\* every record of seq a occurs in seq b
AllIn(a, b) == \A i \in 1..Len(a) : \E j \in 1..Len(b) : b[j] = a[i]

\* C1: provider isolation. In a run that reached aggregation, if exactly one
\* provider's collector raised, then the error map holds an entry for exactly
\* that provider, the entry is not empty, and every record the other
\* providers returned is in the aggregated output.
C1_ProviderIsolation ==
    (pc = "done" /\ fatal # "TimeoutError") =>
        \A a \in Range(providers) :
            Threw = {a} =>
                /\ Keys(errors) = {a}
                /\ MessageOf(errors, a).s # <<>>
                /\ \A b \in Range(providers) \ {a} : AllIn(outcome[b].data, all_data)

\* C2: a timeout abandons only the late task. When the run ends after the
\* timeout fired, aggregation has still taken place, every provider that was
\* not collected has an empty record list in results and an entry in errors,
\* and every collected provider has kept its records.
C2_TimeoutAbandonsOnlyLateTask ==
    (pc = "done" /\ fatal = "TimeoutError") =>
        /\ summary.present
        /\ \A p \in Range(providers) :
              IF status[p] = "collected"
              THEN p \in Keys(results)
                   /\ (~Truthy(outcome[p].error) => DataOf(results, p) = outcome[p].data)
              ELSE p \in Keys(results) /\ DataOf(results, p) = <<>>
                   /\ p \in Keys(errors)

\* the lists of results, concatenated in submission order
RECURSIVE InSubmissionOrder(_)
InSubmissionOrder(ps) ==
    IF ps = <<>> THEN <<>>
    ELSE (IF Head(ps) \in Keys(results) THEN DataOf(results, Head(ps)) ELSE <<>>)
         \o InSubmissionOrder(Tail(ps))

C4_SummaryAlwaysHoldsErrors ==
    (pc = "done" /\ fatal # "TimeoutError") =>
        /\ summary.present
        /\ "errors" \in summary.keys
        /\ summary.errors = errors

---------------------------------------------------------------------------
(* Properties of validate_instance_data (specification ValSpec) *)

\* the field is missing, None, or a number <= 0
MissingOrNonPositive(v) ==
    v.k \in {"absent", "none"} \/ (v.k = "num" /\ v.n <= 0)

\* C6: a record of a compute type whose vCPU or memoryGiB is missing, None or
\* not positive is rejected, whatever its other fields are.
C6_ComputeNeedsSpecs ==
    (/\ verdict # "pending"
     /\ InList(instance.type, COMPUTE_TYPES)
     /\ \/ MissingOrNonPositive(instance.vCPU)
        \/ MissingOrNonPositive(instance.memoryGiB))
    => verdict = "False"

\* C6 witness: a cloud-server without vCPU is rejected, and the same record as
\* a cloud-volume passes every check
C6_Witness ==
    /\ verdict = "False"
    /\ instance.type = Str(<<"cloud-server">>)
    /\ instance.vCPU = Absent
    /\ instance.memoryGiB = Num(1)
    /\ ValidateBody([instance EXCEPT !.type = Str(<<"cloud-volume">>)]) = "True"

\* C7: no record the validator accepts carries a negative priceUSD_hourly
\* (also when its priceEUR_hourly_net is positive).
C7_PriceNonNegative ==
    verdict = "True" =>
        ~(IsNumber(instance.priceUSD_hourly) /\ instance.priceUSD_hourly.n < 0)

\* a number <= 0
NonPositive(v) == v.k = "num" /\ v.n <= 0

\* C8: a record whose priceUSD_hourly is not positive and whose
\* priceEUR_hourly_net is not positive or absent is rejected, whatever its
\* other fields are.
C8_NoUsablePricingRejected ==
    (/\ verdict # "pending"
     /\ NonPositive(instance.priceUSD_hourly)
     /\ \/ NonPositive(instance.priceEUR_hourly_net)
        \/ ~Has(instance, "priceEUR_hourly_net"))
    => verdict = "False"

\* C8 witness: both prices are 0 and the record is rejected, while the same
\* record with a positive USD price passes every check
C8_Witness ==
    /\ verdict = "False"
    /\ instance.priceUSD_hourly = Num(0)
    /\ instance.priceEUR_hourly_net = Num(0)
    /\ ValidateBody([instance EXCEPT !.priceUSD_hourly = Num(1)]) = "True"

\* C10: the call never raises: it returns True or False, and returns False
\* where a check inside it raised (a non-string instanceType reaching strip()).
C10_NeverRaises ==
    verdict # "pending" =>
        /\ verdict \in {"True", "False"}
        /\ (ValidateBody(instance) = "raise" => verdict = "False")

\* C10 witness: a record with a numeric instanceType, on which strip() raises,
\* got the verdict False
C10_Witness ==
    /\ verdict = "False"
    /\ instance.instanceType = Num(7)
    /\ ValidateBody(instance) = "raise"

---------------------------------------------------------------------------
(* Properties of the batch loops (specification BatchSpec) *)

\* the record element j of the batch hands to validate_instance_data
ValidatedRecord(j) ==
    IF fn = "validate_dataset" THEN batch[j] ELSE NormalizedItem(batch[j])

\* element j gets as far as the validator
ReachesValidator(j) == fn = "validate_dataset" \/ ~NormalizeRaises(batch[j])

OutsideAllowLists(r) ==
    ~InList(r.provider, VALID_PROVIDERS) \/ ~InList(r.type, VALID_TYPES)

\* C9: a record whose provider or type is outside its allow-list is rejected
\* by the validator and kept out of the output, and the loop goes on: every
\* element already passed whose record is valid is in the output, and the
\* function returns only after the last element.
C9_RejectedNotFatal ==
    /\ \A j \in 1..Len(batch) :
          ReachesValidator(j) =>
              /\ OutsideAllowLists(ValidatedRecord(j)) =>
                    /\ validate_instance_data(ValidatedRecord(j)) = "False"
                    /\ \A k \in 1..Len(out) : out[k] # ValidatedRecord(j)
              /\ (j < bi /\ validate_instance_data(ValidatedRecord(j)) = "True") =>
                    \E k \in 1..Len(out) : out[k] = ValidatedRecord(j)
    /\ bpc = "returned" => bi = Len(batch) + 1

\* C9 witness: the function returned, an element outside the allow-lists was
\* rejected, and a later element is in the output
C9_Witness ==
    /\ bpc = "returned"
    /\ \E j \in 1..Len(batch) : \E k \in (j + 1)..Len(batch) :
          /\ ReachesValidator(j)
          /\ OutsideAllowLists(ValidatedRecord(j))
          /\ ReachesValidator(k)
          /\ \E m \in 1..Len(out) : out[m] = ValidatedRecord(k)

---------------------------------------------------------------------------
(* Properties of the HTTP clients (specification HttpSpec) *)

\* the constants of the client that runs
RetryCount == IF impl = "v1" THEN API_RETRY_COUNT ELSE api_retry_count
Ttl == IF impl = "v1" THEN CACHE_DURATION ELSE cache_duration
Base == IF impl = "v1" THEN API_RETRY_DELAY ELSE Second

\* a 200 response whose body is JSON
Answered200(r) == r.exc = "none" /\ r.status = 200 /\ ~JsonRaises(r.body)

IsBackoff(s) == s.kind = "backoff"
IsRate(s) == s.kind = "rate"

\* C11: cache correctness: two calls with identical url and params, made
\* within the TTL, issue exactly one network call in total (the server
\* answering the first with 200 and a JSON body at once)
C11_OneNetworkCall ==
    (/\ hpc = "returned"
     /\ prev.valid
     /\ prev.key = cache_key
     /\ started - prev.started < Ttl
     /\ prev.calls > 0
     /\ prev.server.n = 0
     /\ Answered200(prev.server.then))
    => prev.calls + calls = 1

\* C12: retry ceiling: against a server that always answers 500 a request
\* makes exactly retryCount + 1 network attempts and then fails with a
\* typed ServerError
C12_RetryCeilingServerError ==
    (/\ hpc = "returned"
     /\ calls > 0
     /\ server.n = 0
     /\ server.then = HttpResponse(500, ""))
    => (calls = RetryCount + 1 /\ result = "ServerError")

\* C13: a 401 or 403 response is terminal: the request fails with that
\* attempt, no network attempt and no backoff sleep follow it, and nothing
\* is stored in the cache
C13_AuthFailureTerminal ==
    [][(hpc = "loop" /\ ResponseAt(server, attempt).status \in {401, 403})
       => (/\ hpc' = "returned"
           /\ result' = "None"
           /\ calls' = calls + 1
           /\ api_cache' = api_cache
           /\ \A i \in DOMAIN sleeps' : sleeps'[i].at <= calls)]_vars

\* C13: a request that ended on a 403 received at its third attempt, after
\* two answers it retried with a backoff
C13_Witness ==
    /\ hpc = "returned"
    /\ response = HttpResponse(403, "")
    /\ calls = 3
    /\ result = "None"
    /\ Len(SelectSeq(sleeps, IsBackoff)) = 2

\* C14: a 404 response makes the request fail at once, with no further
\* attempt, and the outcome is not cached, in both clients
C14_NotFoundTerminal ==
    [][(hpc = "loop" /\ ResponseAt(server, attempt).status = 404)
       => (/\ hpc' = "returned"
           /\ result' = "None"
           /\ calls' = calls + 1
           /\ api_cache' = api_cache)]_vars

\* the server answers 429 to the attempts 1 and 2 and 200 with a JSON body
\* to the attempt 3
Is429Twice(srv) ==
    srv.pre = HttpResponse(429, "") /\ srv.n = 2 /\ Answered200(srv.then)

\* C15: on 429, 429, 200 the client sleeps exactly two backoffs, base*2^0
\* and base*2^1, returns the 200 response and caches it, and a following
\* identical request within the TTL makes 0 network calls
C15_TwoBackoffsThenCached ==
    /\ (hpc = "returned" /\ calls > 0 /\ Is429Twice(server))
       => (/\ Len(SelectSeq(sleeps, IsBackoff)) = 2
           /\ SelectSeq(sleeps, IsBackoff)[1].dur = Base * Pow2(0)
           /\ SelectSeq(sleeps, IsBackoff)[2].dur = Base * Pow2(1)
           /\ result = Json(server.then.body)
           /\ api_cache[cache_key].full
           /\ api_cache[cache_key].data = result)
    /\ (/\ hpc = "returned"
        /\ prev.valid
        /\ prev.calls > 0
        /\ Is429Twice(prev.server)
        /\ prev.key = cache_key
        /\ started - prev.finished < Ttl)
       => calls = 0

\* C16: the fixed rate-limit delay is applied before each retry attempt
\* and never before the first attempt of a request
C16_RateDelayOnlyBeforeRetries ==
    /\ \A i \in DOMAIN sleeps : IsRate(sleeps[i]) => sleeps[i].at > 0
    /\ (calls > 0) => (Len(SelectSeq(sleeps, IsRate)) = calls - 1)

\* the failure kinds the caller is to tell apart
FailureKind(r) ==
    IF r.exc # "none" THEN "transport failure"
    ELSE IF r.status = 200 THEN "parse error"
    ELSE IF r.status \in {401, 403} THEN "auth failure"
    ELSE IF r.status = 404 THEN "not found"
    ELSE IF r.status = 429 THEN "rate-limit exhaustion"
    ELSE IF 500 <= r.status /\ r.status < 600 THEN "server error"
    ELSE "unexpected status"

\* a request that went to the network and ended without a parsed answer
Failed(c, r) == c > 0 /\ ~Answered200(r)

\* C17: two requests that fail for different reasons return
\* distinguishable outcomes to the caller
C17_FailureKindsDistinguished ==
    (/\ hpc = "returned"
     /\ prev.valid
     /\ Failed(prev.calls, prev.response)
     /\ Failed(calls, response)
     /\ FailureKind(prev.response) # FailureKind(response))
    => prev.result # result

---------------------------------------------------------------------------
(* Properties of the collectors' credentials (specification CredSpec) *)

\* the credentials the running collector needs are unset: the API token
\* for a cloud collector, the Robot user or password for a dedicated one
CredentialsUnset ==
    IF coll \in {"v1.fetch_hetzner_dedicated", "v2.collect_all_dedicated_services"}
    THEN robot_user = "" \/ robot_password = ""
    ELSE cloud_api_token = ""

---------------------------------------------------------------------------
(* Properties of the pricing join (specification JoinSpec) *)

\* the records emitted for the server type called name
RecordsOf(name) == {j \in DOMAIN cout : cout[j].instanceType = name}

\* the indexes of the price points of an entry that carry a location
LocatedPoints(info) == {i \in DOMAIN info.prices : info.prices[i].location # ""}

\* C19: a server type whose name has no match in the name-to-pricing map
\* is skipped, no record is emitted for it, and the other server types
\* are still processed
C19_UnmatchedSkipped ==
    (cpc = "returned" /\ cin # NoInput)
    => \A i \in DOMAIN cin.server_types :
          LET name == cin.server_types[i]
          IN /\ ~cin.pricing[name].match => RecordsOf(name) = {}
             /\ LocatedPoints(cin.pricing[name]) # {} => RecordsOf(name) # {}

\* C20: a record's default hourly and monthly prices are the minimum over
\* the located price points of its server type, and regionalPricing holds
\* one entry per located price point, none of them below the default
C20_DefaultIsRegionalMinimum ==
    (cin # NoInput)
    => \A j \in DOMAIN cout :
          LET info == cin.pricing[cout[j].instanceType]
              pts == LocatedPoints(info)
          IN pts # {}
             => /\ cout[j].priceEUR_hourly_net
                     = Num(Min({info.prices[i].hourly : i \in pts}))
                /\ cout[j].priceEUR_monthly_net
                     = Num(Min({info.prices[i].monthly : i \in pts}))
                /\ cout[j].regionalPricing.k = "list"
                /\ Len(cout[j].regionalPricing.s) = Cardinality(pts)
                /\ \A e \in Range(cout[j].regionalPricing.s) :
                       /\ cout[j].priceEUR_hourly_net.n <= e.hourly_net
                       /\ cout[j].priceEUR_monthly_net.n <= e.monthly_net

---------------------------------------------------------------------------
(* Properties of the normalizers (specification NormSpec) *)

\* the records of a return value without their lastUpdated
WithoutLastUpdated(r) ==
    [raised |-> r.raised,
     value |-> [i \in DOMAIN r.value |-> [r.value[i] EXCEPT !.lastUpdated = Absent]]]

---------------------------------------------------------------------------
(* Properties of the run over the whole registry (specification            *)
(* RegistrySpec)                                                           *)

\* the providers whose task has returned
Completed == {p \in DOMAIN status : status[p] \in {"finished", "collected"}}

\* C22: bounded fan-out: each configured provider is submitted as exactly
\* one task (the registry names it once, it is queued by the dispatch and
\* never queued again), at no moment more than MAX_WORKERS tasks execute,
\* and a provider beyond the pool capacity starts only after a running task
\* has finished
C22_BoundedFanOut ==
    /\ [](/\ Len(providers) = Cardinality(Range(providers))
          /\ DOMAIN status = Range(providers)
          /\ pc # "idle" => \A p \in DOMAIN status : status[p] # "none"
          /\ Cardinality(Running) <= MAX_WORKERS
          /\ \A p \in DOMAIN status :
                (status[p] # "queued" /\ pc # "idle"
                 /\ IndexOf(providers, p) > MAX_WORKERS)
                => Cardinality(Completed \ {p}) >= IndexOf(providers, p) - MAX_WORKERS)
    /\ [][\A p \in DOMAIN status :
            (status'[p] = "queued" /\ status[p] # "queued")
            => (pc = "idle" /\ status[p] = "none")]_vars

\* C22: the pool is full, with the fifth provider running in the place of
\* a finished task and the sixth still queued
C22_Witness ==
    /\ Cardinality(Running) = MAX_WORKERS
    /\ status["oci"] = "running"
    /\ status["ovh"] = "queued"
    /\ Cardinality(Completed) = 1

---------------------------------------------------------------------------
(* Further properties of the HTTP clients (specification HttpSpec) *)

\* a response whose status is none of 200, 401, 403, 404, 429 and 5xx
OtherStatus(r) ==
    /\ r.exc = "none"
    /\ r.status \notin {200, 401, 403, 404, 429}
    /\ ~(500 <= r.status /\ r.status < 600)

\* C23: a response with a status other than 200, 401, 403, 404, 429 and
\* 5xx makes the request fail at once: the attempt that received it is the
\* request's last, in both clients
C23_OtherStatusTerminal ==
    [][(hpc = "loop" /\ OtherStatus(ResponseAt(server, attempt)))
       => (/\ hpc' = "returned"
           /\ result' = "None"
           /\ calls' = calls + 1)]_vars

\* C24: whatever the server answers and whichever transport failures
\* occur, a request makes at most retryCount + 1 network attempts, and
\* with the last of them it returns
C24_BoundedAttempts ==
    /\ calls <= RetryCount + 1
    /\ attempt <= RetryCount
    /\ calls = RetryCount + 1 => hpc = "returned"

\* C24: a request has ended with its last permitted attempt, after two
\* timeouts followed by 429 answers
C24_Witness ==
    /\ hpc = "returned"
    /\ calls = RetryCount + 1
    /\ server.pre = Raised("Timeout")
    /\ server.n = 2
    /\ server.then = HttpResponse(429, "")
    /\ result = "None"

---------------------------------------------------------------------------
(* Further properties of the batch loops (specification BatchSpec) *)

\* the raw item is normalized without an error and its record is valid
PassesNormalization(item) ==
    ~NormalizeRaises(item) /\ validate_instance_data(NormalizedItem(item)) = "True"

\* the dict is valid
PassesValidation(inst) == validate_instance_data(inst) = "True"

\* C25: per-record failure is isolated: an item whose normalization raises
\* or whose record the validator rejects is skipped, alone. At every point
\* of the loop the output is exactly the records of the items passed so far
\* that pass validation, in input order, and the function returns only
\* after the last item
C25_RecordFailureIsolated ==
    /\ fn = "_normalize_hetzner_data" =>
          LET passed == SelectSeq(SubSeq(batch, 1, bi - 1), PassesNormalization)
          IN  out = [i \in DOMAIN passed |-> NormalizedItem(passed[i])]
    /\ fn = "validate_dataset" =>
          out = SelectSeq(SubSeq(batch, 1, bi - 1), PassesValidation)
    /\ (fn # "none" /\ bpc = "returned") => bi = Len(batch) + 1

\* C25: _normalize_hetzner_data returned the record of its third item alone,
\* the first item having raised and the record of the second being invalid
C25_Witness ==
    /\ fn = "_normalize_hetzner_data"
    /\ bpc = "returned"
    /\ Len(batch) = 3
    /\ NormalizeRaises(batch[1])
    /\ ~NormalizeRaises(batch[2])
    /\ validate_instance_data(NormalizedItem(batch[2])) = "False"
    /\ out = <<NormalizedItem(batch[3])>>

---------------------------------------------------------------------------
(* Properties of the shared cache under concurrent callers (specification  *)
(* RaceSpec)                                                               *)

\* C26: reads and writes of the shared cache are guarded against races:
\* under no interleaving of the steps of two concurrent callers on the same
\* key does get_from_cache raise an error or return an entry that is older
\* than the TTL
C26_CacheRaceFree ==
    \A t \in Threads :
        /\ tret[t].kind # "KeyError"
        /\ tret[t].kind = "data" => tret[t].at - tret[t].timestamp < Ttl

---------------------------------------------------------------------------
(* Properties of convert_currency (specification FxSpec) *)

\* amount * 1.0
TimesOne(amount) == Num((amount.n * RateUnit) \div RateUnit)

\* the currency has a rate neither in the rates the lookup returned nor in
\* the fallback rates
UnknownToBoth(c) == c \notin DOMAIN rate_cache /\ c \notin DOMAIN FALLBACK_RATES

\* C27: convert_currency never raises: when the rate lookup fails it
\* returns the original amount unchanged, when from_currency equals
\* to_currency it returns the amount without any rate lookup, and a
\* currency unknown to both the fetched and the fallback rates is
\* converted with rate 1.0
C27_LookupFailureReturnsAmount ==
    fxlookup # "no call" =>
        /\ fxret.raised = "none"
        /\ fxlookup = "fetch failed" => fxret.value = fxargs.amount
        /\ fxargs.from_currency = fxargs.to_currency =>
              (fxret.value = fxargs.amount /\ fxlookup = "no lookup")
        /\ (/\ fxargs.from_currency # fxargs.to_currency
            /\ UnknownToBoth(fxargs.from_currency)
            /\ IsNumber(fxargs.amount))
           => fxret.value = TimesOne(fxargs.amount)

\* C27 as the code has it: convert_currency never raises. When the lookup
\* cannot fetch the rates, a numeric amount is converted with the
\* currency's fallback rate; when applying the rate raises (the amount is
\* not a number), the original amount is returned unchanged; when
\* from_currency equals to_currency the amount is returned without any
\* rate lookup; a currency unknown to both the rates looked up and the
\* fallback rates is converted with rate 1.0
C27_FallbackRateOrOriginalAmount ==
    fxlookup # "no call" =>
        /\ fxret.raised = "none"
        /\ fxargs.from_currency = fxargs.to_currency =>
              (fxret.value = fxargs.amount /\ fxlookup = "no lookup")
        /\ fxargs.from_currency # fxargs.to_currency =>
              /\ fxlookup # "no lookup"
              /\ ~IsNumber(fxargs.amount) => fxret.value = fxargs.amount
              /\ (IsNumber(fxargs.amount) /\ fxlookup = "fetch failed") =>
                    fxret.value =
                        IF fxargs.from_currency \in DOMAIN FALLBACK_RATES
                        THEN Num((fxargs.amount.n * FALLBACK_RATES[fxargs.from_currency])
                                 \div RateUnit)
                        ELSE TimesOne(fxargs.amount)
              /\ (IsNumber(fxargs.amount) /\ UnknownToBoth(fxargs.from_currency)) =>
                    fxret.value = TimesOne(fxargs.amount)

\* C27: the fetch of the rates failed and 1.0 EUR was converted with the
\* fallback rate 1.10
C27_Witness ==
    /\ fxlookup = "fetch failed"
    /\ fxargs.from_currency = "EUR"
    /\ fxargs.to_currency = "USD"
    /\ fxargs.amount = Num(RateUnit)
    /\ fxret = FxReturn(Num(11000))


(***************************************************************************)
(* Aggregation waits for every provider task (specification Spec)          *)
(***************************************************************************)

\* fetch_all_providers has returned normally: run() went on to combine the
\* results (lines 268-271) instead of entering its except clause on the
\* TimeoutError of as_completed
ReturnedNormally ==
    \/ pc = "aggregated"
    \/ pc = "done" /\ fatal # "TimeoutError"

\* C28: aggregation starts only after every submitted provider task has
\* completed: whenever fetch_all_providers has returned normally every task
\* is finished and its result taken, results holds exactly one entry for
\* each configured provider, and every provider with an entry in errors has
\* an empty record list in results
C28_AggregationAfterAllTasks ==
    ReturnedNormally =>
        /\ \A p \in DOMAIN status : status[p] = "collected"
        /\ Keys(results) = Range(providers)
        /\ Len(results) = Len(providers)
        /\ \A p \in Keys(errors) :
              p \in Keys(results) /\ DataOf(results, p) = <<>>

\* C28: a run aggregated the results of all its providers, one of which had
\* failed and another of which had delivered records
C28_Witness ==
    /\ ReturnedNormally
    /\ Len(providers) > 1
    /\ errors # <<>>
    /\ all_data # <<>>
    /\ \E p \in Keys(results) : p \notin Keys(errors) /\ DataOf(results, p) # <<>>


(***************************************************************************)
(* Only validated records are aggregated (specification RegistrySpec)      *)
(***************************************************************************)

\* the records of a list the validator accepts
Accepted(data) ==
    {i \in 1..Len(data) : validate_instance_data(data[i]) = "True"}

\* C29: every record in the combined output of a run has passed
\* validate_instance_data: no record the validator rejects is in a
\* provider's result, in the aggregated list or in the counts of the
\* summary, whatever the collectors of the six providers delivered
C29_OnlyValidatedRecords ==
    /\ \A i \in 1..Len(results) :
          Accepted(results[i].data) = 1..Len(results[i].data)
    /\ Accepted(all_data) = 1..Len(all_data)
    /\ summary.present =>
          /\ summary.totalInstances = Cardinality(Accepted(all_data))
          /\ \A i \in 1..Len(summary.byProvider) :
                summary.byProvider[i].count =
                    Cardinality({j \in Accepted(all_data) :
                        all_data[j].provider.s = summary.byProvider[i].key})

\* C29: a finished run saved two Hetzner records, one normalized from a
\* new-format item and one rebuilt from a legacy item, and counted both
C29_Witness ==
    /\ pc = "done"
    /\ saved
    /\ Len(all_data) = 2
    /\ all_data[1].lastUpdated # Now
    /\ all_data[2].lastUpdated = Now
    /\ summary.present
    /\ summary.totalInstances = 2


(***************************************************************************)
(* The figures of the summary (specification SummarySpec)                  *)
(***************************************************************************)

\* the sum of the counts of a byProvider or byType table
RECURSIVE SumCounts(_)
SumCounts(table) ==
    IF table = <<>> THEN 0 ELSE Head(table).count + SumCounts(Tail(table))

\* the records of a list with priceUSD_hourly > 0
Priced(data) == {i \in 1..Len(data) : data[i].priceUSD_hourly.n > 0}

\* C30: in every summary generated from a non-empty record list,
\* totalInstances is the length of the list, the sum of the byProvider
\* counts and the sum of the byType counts; providersCount is the number of
\* byProvider keys; priceRange holds the least and the greatest
\* priceUSD_hourly of the records whose price is positive, 0 and 0 when
\* there is none; and priceRange.min <= priceRange.max
C30_SummaryFigures ==
    (summary.present /\ all_data # <<>>) =>
        /\ summary.totalInstances = Len(all_data)
        /\ summary.totalInstances = SumCounts(summary.byProvider)
        /\ summary.totalInstances = SumCounts(summary.byType)
        /\ summary.providersCount = Len(summary.byProvider)
        /\ summary.providersCount =
              Cardinality({summary.byProvider[i].key : i \in 1..Len(summary.byProvider)})
        /\ {summary.byProvider[i].key : i \in 1..Len(summary.byProvider)} =
              {all_data[i].provider.s : i \in 1..Len(all_data)}
        /\ IF Priced(all_data) = {}
           THEN summary.priceRange = [min |-> 0, max |-> 0]
           ELSE /\ \E i \in Priced(all_data) :
                      summary.priceRange.min = all_data[i].priceUSD_hourly.n
                /\ \E i \in Priced(all_data) :
                      summary.priceRange.max = all_data[i].priceUSD_hourly.n
                /\ \A i \in Priced(all_data) :
                      /\ summary.priceRange.min <= all_data[i].priceUSD_hourly.n
                      /\ all_data[i].priceUSD_hourly.n <= summary.priceRange.max
        /\ summary.priceRange.min <= summary.priceRange.max

\* C30: a summary of three records of two providers, one of them free of
\* charge and the others priced 1 and 2
C30_Witness ==
    /\ summary.present
    /\ Len(all_data) = 3
    /\ \E i \in 1..3 : all_data[i].priceUSD_hourly = Num(0)
    /\ summary.priceRange = [min |-> 1, max |-> 2]
    /\ summary.providersCount = 2
    /\ Len(summary.byType) = 2

=============================================================================
